---------------------------- MODULE Spec2Model ----------------------------
(***************************************************************************)
(* Durable local storage of the Name-That-Artist bot: the append-only log  *)
(* (services/append-log.js: appendLogEntry, readLogEntries,                *)
(* rebuildStateFromLog, compactLog) and the JSON storage facade            *)
(* (services/storage.js).                                                  *)
(*                                                                         *)
(* Every `await` of the code is a suspension point, so an operation is a   *)
(* small process: one action per awaited I/O call, together with the       *)
(* synchronous code that runs up to the next await.  A file is what the    *)
(* operating system shows of it (files); disk is the part of it that has   *)
(* reached persistent storage.                                             *)
(*                                                                         *)
(* Left out: the `timestamp` / `compactedAt` fields of a log line, which   *)
(* no code reads back.  JSON values are the same before and after a        *)
(* stringify/parse round trip, so a parsed line is the entry written.      *)
(***************************************************************************)
EXTENDS Integers, Sequences, FiniteSets, TLC

VARIABLES
    dirs,       \* which of DATA_DIR, LOGS_DIR exist
    files,      \* logName -> the log file as the operating system shows it: [exists, lines]
    disk,       \* logName -> the log file as it is on persistent storage
    backups,    \* logName -> (timestamp -> lines) of <logName>.log.backup.<timestamp>
    snaps,      \* dataset -> the JSON snapshot file: [exists, parses, data]
    clock,      \* Date.now()
    procs,      \* the asynchronous calls in flight, by caller slot
    issued,     \* history: logName -> entries of the append calls issued, in call order
    acked,      \* history: logName -> entries whose append has returned
    ackedSince, \* history: the same, since a compaction last overwrote the log
    ncompact,   \* history: logName -> compactions completed in a row, an append
                \*          having returned between any two (counted up to 4)
    appended,   \* history: logName -> an append returned since the last compaction
    made,       \* history: logName -> timestamps of the backups copied, oldest first
    last,       \* history: the call that returned last, or the restart or power loss
    scheduler,  \* the CompactionScheduler: isRunning, intervalId, the timers
                \* armed (timer -> the logNames of its callback) and the
                \* tick callbacks in progress
    calls,      \* history: userId -> the updatePlayerStats calls that returned,
                \*          in order, kept while calls.recording is set
    obs,        \* history: logName -> the entries readLogEntries returned last,
                \*          and what compactLog did to the log since
    session,    \* the game session of one channel (game.js: activeSessions)
    bot         \* the callbacks of index.js for that channel: the timers
                \* pending and the endGame call of /stopgame in flight

vars == <<dirs, files, disk, backups, snaps, clock, procs, issued, acked,
          ackedSince, ncompact, appended, made, last, scheduler, calls, obs,
          session, bot>>

---------------------------------------------------------------------------
(* Bounds *)

\* append calls issued to one log between two overwrites of it
MaxLogLen == 2
\* the last value of Date.now()
MaxClock == 4
\* caller slots: calls in flight at once
MaxProcs == 2
\* lines of a log given at the start
MaxInitLen == 3
\* games recorded for one player
MaxGames == 2
\* interval timers armed at once
MaxTimers == 2
\* game sessions started
MaxSessions == 1

\* compactLog keeps this many backup files
KeepBackups == 3

---------------------------------------------------------------------------
(* Values *)

LogNames == {"players", "game_state"}

\* Keys as JavaScript sees them: "" is the falsy key (an empty or missing key).
Keys == {"", "u1", "u2"}

Values == {[score |-> 100], [score |-> 150]}

NoValue == [undefined |-> TRUE]

EmptyMap == <<>>

OpType == [SET |-> "SET", DELETE |-> "DELETE", CHECKPOINT |-> "CHECKPOINT"]

SetEntry(k, v) ==
    [op |-> OpType.SET, key |-> k, value |-> v, data |-> EmptyMap, state |-> EmptyMap]

SetDataEntry(d) ==
    [op |-> OpType.SET, key |-> "", value |-> NoValue, data |-> d, state |-> EmptyMap]

DeleteEntry(k) ==
    [op |-> OpType.DELETE, key |-> k, value |-> NoValue, data |-> EmptyMap, state |-> EmptyMap]

CheckpointEntry(s) ==
    [op |-> OpType.CHECKPOINT, key |-> "", value |-> NoValue, data |-> EmptyMap, state |-> s]

NoEntry ==
    [op |-> "NONE", key |-> "", value |-> NoValue, data |-> EmptyMap, state |-> EmptyMap]

\* JavaScript truthiness of a key.
Truthy(k) == k # ""

\* state[k] = v
Put(m, k, v) == [x \in DOMAIN m \cup {k} |-> IF x = k THEN v ELSE m[x]]

\* delete state[k]
Remove(m, k) == [x \in DOMAIN m \ {k} |-> m[x]]

\* Object.assign(m, n)
Assign(m, n) == [x \in DOMAIN m \cup DOMAIN n |-> IF x \in DOMAIN n THEN n[x] ELSE m[x]]

Range(s) == {s[i] : i \in DOMAIN s}

---------------------------------------------------------------------------
(* Log lines and files *)

\* JSON.stringify(logEntry) + '\n'
Stringify(e) == [kind |-> "json", entry |-> e]

\* JSON.parse(line)
ParseLine(l) == l.entry

Parses(l) == l.kind = "json"

\* What is left of a line cut by a write over its first bytes.
Fragment == [kind |-> "fragment", entry |-> NoEntry]

\* An empty line of the file.
Blank == [kind |-> "blank", entry |-> NoEntry]

NoFile == [exists |-> FALSE, lines |-> <<>>]

NoSnap == [exists |-> FALSE, parses |-> TRUE, data |-> EmptyMap]

FileOf(ls) == [exists |-> TRUE, lines |-> ls]

\* content.trim().split('\n').filter(line => line.length > 0)
NonEmptyLines(ls) == SelectSeq(ls, LAMBDA l : l.kind # "blank")

ReadLogEntriesSkipping(f) ==
    LET ls == SelectSeq(f.lines, LAMBDA l : l.kind = "json")
    IN  [ok |-> TRUE, entries |-> [i \in DOMAIN ls |-> ParseLine(ls[i])]]

ReadLogEntriesReversed(f) ==
    LET ls == NonEmptyLines(f.lines)
    IN  [ok |-> \A i \in DOMAIN ls : Parses(ls[i]),
         entries |-> [i \in DOMAIN ls |-> ParseLine(ls[Len(ls) + 1 - i])]]

\* readLogEntries: the parsed non-empty lines of the file; a missing file
\* reads as no entries, a line that does not parse fails the read.
ReadLogEntries(f) ==
    IF ~f.exists THEN [ok |-> TRUE, entries |-> <<>>]
    ELSE LET ls == NonEmptyLines(f.lines)
         IN  IF \E i \in DOMAIN ls : ~Parses(ls[i])
             THEN [ok |-> FALSE, entries |-> <<>>]
             ELSE [ok |-> TRUE, entries |-> [i \in DOMAIN ls |-> ParseLine(ls[i])]]

ReplayEntryNoDelete(state, entry) ==
    IF entry.op = OpType.SET
    THEN IF Truthy(entry.key) THEN Put(state, entry.key, entry.value)
         ELSE Assign(state, entry.data)
    ELSE IF entry.op = OpType.CHECKPOINT THEN Assign(state, entry.state)
    ELSE state

\* The body of the replay loop of rebuildStateFromLog.
ReplayEntry(state, entry) ==
    IF entry.op = OpType.SET
    THEN IF Truthy(entry.key) THEN Put(state, entry.key, entry.value)
         ELSE Assign(state, entry.data)
    ELSE IF entry.op = OpType.DELETE THEN Remove(state, entry.key)
    ELSE IF entry.op = OpType.CHECKPOINT THEN Assign(state, entry.state)
    ELSE state

RECURSIVE ReplayUpToCheckpoint(_, _)
ReplayUpToCheckpoint(state, entries) ==
    IF entries = <<>> THEN state
    ELSE IF Head(entries).op = OpType.CHECKPOINT THEN Assign(state, Head(entries).state)
    ELSE ReplayUpToCheckpoint(ReplayEntry(state, Head(entries)), Tail(entries))

RECURSIVE Replay(_, _)
Replay(state, entries) ==
    IF entries = <<>> THEN state
    ELSE Replay(ReplayEntry(state, Head(entries)), Tail(entries))

RebuildStateFromLogOnce(f) ==
    IF last.kind = "rebuild" THEN EmptyMap ELSE Replay(EmptyMap, ReadLogEntries(f).entries)

\* rebuildStateFromLog, for a log that reads.
RebuildStateFromLog(f) == Replay(EmptyMap, ReadLogEntries(f).entries)

---------------------------------------------------------------------------
(* Sizes in bytes *)

\* the bytes of a keyed Set line besides its key and value:
\* {"timestamp":"<24 characters>","op":"SET","key":"","value":} and the newline
SetOverhead == 70

\* of a Delete line besides its key
DeleteOverhead == 64

\* of a whole-state Set line besides its data object
DataOverhead == 60

\* of the line compactLog writes besides its state object:
\* {"op":"CHECKPOINT","state":,"compactedAt":"<24 characters>"} and the newline
CheckpointOverhead == 70

\* the quotes, colon and comma a member adds to an object
MemberOverhead == 4

\* the bytes of a small value such as {"score":100}
SmallValue == 13

\* the bytes of what is left of a line cut short
FragmentSize == 32

\* A value of half a MiB less the rest of its line under a key of two
\* characters: two Set lines of it make a log of exactly 1 MiB.
BigValue == [bytes |-> 524216]

\* The keys are "" and names of two characters.
KeySize(k) == IF k = "" THEN 0 ELSE 2

ValueSize(v) == IF "bytes" \in DOMAIN v THEN v.bytes ELSE SmallValue

RECURSIVE MapSize(_)
MapSize(m) ==
    IF DOMAIN m = {} THEN 0
    ELSE LET k == CHOOSE x \in DOMAIN m : TRUE
         IN  KeySize(k) + MemberOverhead + ValueSize(m[k])
                 + MapSize([x \in DOMAIN m \ {k} |-> m[x]])

\* JSON.stringify of an object: the braces, and one comma less than members.
ObjectSize(m) == IF DOMAIN m = {} THEN 2 ELSE 1 + MapSize(m)

EntrySize(e) ==
    IF e.op = OpType.CHECKPOINT THEN CheckpointOverhead + ObjectSize(e.state)
    ELSE IF e.op = OpType.DELETE THEN DeleteOverhead + KeySize(e.key)
    ELSE IF e.value = NoValue THEN DataOverhead + ObjectSize(e.data)
    ELSE SetOverhead + KeySize(e.key) + ValueSize(e.value)

LineSize(l) ==
    IF l.kind = "json" THEN EntrySize(l.entry)
    ELSE IF l.kind = "blank" THEN 1
    ELSE FragmentSize

RECURSIVE LinesSize(_)
LinesSize(ls) == IF ls = <<>> THEN 0 ELSE LineSize(Head(ls)) + LinesSize(Tail(ls))

\* getLogSize: stats.size, and 0 for a missing file (ENOENT).
LogSize(f) == IF ~f.exists THEN 0 ELSE LinesSize(f.lines)

---------------------------------------------------------------------------
(* Calls in flight *)

ProcIds == 1..MaxProcs

\* No tick callback in progress in this slot.
NoTick == [active |-> FALSE, names |-> <<>>, idx |-> 0, pc |-> "idle"]

\* new CompactionScheduler(): intervalId = null (0), isRunning = false.
SchedulerInit ==
    [isRunning |-> FALSE, intervalId |-> 0, timers |-> EmptyMap,
     ticks |-> [p \in ProcIds |-> NoTick]]

\* No updatePlayerStats call recorded, and none to be.
NoCalls == [recording |-> FALSE, by |-> EmptyMap, failed |-> FALSE]

\* No readLogEntries call has returned yet, and none is to be kept.
NoObservation ==
    [kept |-> FALSE, read |-> FALSE, entries |-> <<>>, replaced |-> FALSE,
     completed |-> FALSE]

NoObs == [n \in LogNames |-> NoObservation]

\* activeSessions holds no session for the channel.
NoSession ==
    [exists |-> FALSE, isActive |-> FALSE, currentRound |-> 0, totalRounds |-> 0,
     answered |-> <<>>, players |-> EmptyMap, pc |-> "none", todo |-> <<>>,
     started |-> 0]

\* No endGame call of /stopgame is in flight.
NoEnding == [pc |-> "none", todo |-> <<>>]

\* No timer is pending and none is to be set; with timers, the channel may
\* see one session more, so that a timer can outlive its session.
NoBot == [armed |-> FALSE, sessions |-> MaxSessions, timers |-> {}, stop |-> NoEnding]

Idle ==
    [kind |-> "idle", pc |-> "idle", log |-> "", entry |-> NoEntry,
     state |-> EmptyMap, before |-> <<>>, ts |-> 0, todo |-> <<>>,
     key |-> "", value |-> NoValue, loaded |-> EmptyMap, size |-> 0,
     during |-> <<>>, window |-> 0]

LastNone ==
    [kind |-> "none", log |-> "", ok |-> TRUE, entry |-> NoEntry,
     before |-> <<>>, key |-> "", value |-> NoValue, result |-> EmptyMap,
     seen |-> NoFile, again |-> FALSE, prev |-> EmptyMap, size |-> 0,
     was |-> SchedulerInit, names |-> <<>>, needs |-> FALSE, idx |-> 0,
     outcome |-> "", earlier |-> NoObservation, sizeBefore |-> 0,
     during |-> <<>>, window |-> 0, checkpointed |-> EmptyMap, of |-> 0]

Quiet == \A p \in ProcIds : procs[p].kind = "idle"

\* The backup timestamps of a directory listing, newest first: the file
\* names differ in their timestamp only, and timestamps of one length sort
\* as strings the way they sort as numbers.
RECURSIVE SortedNewestFirst(_)
SortedNewestFirst(S) ==
    IF S = {} THEN <<>>
    ELSE LET m == CHOOSE x \in S : \A y \in S : y <= x
         IN  <<m>> \o SortedNewestFirst(S \ {m})

\* The files the cleanup loop of compactLog unlinks: backupFiles[3..].
BackupsToDelete(S) ==
    LET sorted == SortedNewestFirst(S)
    IN  IF Len(sorted) > KeepBackups
        THEN SubSeq(sorted, KeepBackups + 1, Len(sorted))
        ELSE <<>>

LastOf(s, n) == IF Len(s) > n THEN SubSeq(s, Len(s) - n + 1, Len(s)) ELSE s

---------------------------------------------------------------------------
(* appendLogEntry *)

AppendCall(p, name, e) ==
    /\ procs[p].kind = "idle"
    /\ Len(issued[name]) < MaxLogLen
    /\ procs' = [procs EXCEPT ![p] =
                    [Idle EXCEPT !.kind = "append", !.pc = "ensure",
                                 !.log = name, !.entry = e]]
    /\ issued' = [issued EXCEPT ![name] = Append(@, e)]
    /\ last' = LastNone
    /\ UNCHANGED <<bot, calls, obs, session, scheduler, dirs, files, disk, backups, snaps, clock, acked, ackedSince,
                   ncompact, appended, made>>

\* ensureDirectories, awaited first by appendLogEntry and by compactLog.
EnsureDirectories(p) ==
    /\ procs[p].pc = "ensure"
    /\ dirs' = [data |-> TRUE, logs |-> TRUE]
    /\ procs' = [procs EXCEPT ![p].pc =
                    IF procs[p].kind = "append" THEN "append" ELSE "read"]
    /\ UNCHANGED <<bot, calls, obs, session, scheduler, files, disk, backups, snaps, clock, issued, acked, ackedSince,
                   ncompact, appended, made, last>>

\* fs.appendFile(logPath, logLine, {flag: 'a'}): one line at the end of the
\* file, which is created when missing.  Nothing forces it to the disk.
AppendedFileTruncating(f, line) == FileOf(<<line>>)

AppendedFilePrepending(f, line) == FileOf(<<line>> \o f.lines)

AppendedFile(f, line) == FileOf(Append(f.lines, line))

\* The compactLog(name) call of q has read the log and not returned ...
HasRead(q, name) ==
    /\ procs[q].kind = "compact" /\ procs[q].log = name
    /\ procs[q].pc \in {"copy", "truncate", "write", "readdir", "unlink"}

\* ... and its writeFile has completed.
HasWritten(q) == procs[q].pc \in {"readdir", "unlink"}

\* The appends that return while a compactLog call of the log has read it
\* are noted with that call (during), those before its writeFile completed
\* counted (window).
AppendFile(p) ==
    /\ procs[p].pc = "append"
    /\ LET name == procs[p].log
           line == Stringify(procs[p].entry)
       IN  /\ files' = [files EXCEPT ![name] = AppendedFile(@, line)]
           /\ acked' = [acked EXCEPT ![name] = @ \cup {procs[p].entry}]
           /\ ackedSince' = [ackedSince EXCEPT ![name] = @ \cup {procs[p].entry}]
           /\ appended' = [appended EXCEPT ![name] = TRUE]
           /\ last' = [LastNone EXCEPT !.kind = "append", !.log = name,
                                       !.entry = procs[p].entry]
           /\ procs' = [q \in ProcIds |->
                           IF q = p THEN Idle
                           ELSE IF HasRead(q, name)
                           THEN [procs[q] EXCEPT
                                    !.during = Append(@, procs[p].entry),
                                    !.window = IF HasWritten(q) THEN @ ELSE @ + 1]
                           ELSE procs[q]]
    /\ UNCHANGED <<bot, calls, obs, session, scheduler, dirs, disk, backups, snaps, clock, issued, ncompact, made>>

---------------------------------------------------------------------------
(* readLogEntries and rebuildStateFromLog, called by themselves *)

\* readLogEntries(logName) is called.
ReadCall(p, name) ==
    /\ procs[p].kind = "idle"
    /\ procs' = [procs EXCEPT ![p] =
                    [Idle EXCEPT !.kind = "read", !.pc = "readFile", !.log = name]]
    /\ UNCHANGED <<bot, calls, obs, session, scheduler, dirs, files, disk, backups, snaps, clock, issued, acked,
                   ackedSince, ncompact, appended, made, last>>

\* readLogEntries opening the log the way appendFile does, which creates it.
ReadFileCreating(p) ==
    /\ procs[p].pc = "readFile"
    /\ LET name == procs[p].log
           r == ReadLogEntries(files[name])
       IN  /\ last' = [LastNone EXCEPT !.kind = "read", !.log = name, !.ok = r.ok,
                                       !.before = r.entries, !.seen = files[name]]
           /\ files' = [files EXCEPT ![name] = FileOf(files[name].lines)]
    /\ procs' = [procs EXCEPT ![p] = Idle]
    /\ UNCHANGED <<bot, calls, obs, session, scheduler, dirs, disk, backups, snaps, clock,
                   issued, acked, ackedSince, ncompact, appended, made>>

\* fs.readFile, then the lines are split and parsed; the call returns the
\* entries or throws.  last.earlier is what the call before it returned for
\* this log.
ReadFile(p) ==
    /\ procs[p].pc = "readFile"
    /\ LET name == procs[p].log
           r == ReadLogEntries(files[name])
       IN  /\ last' = [LastNone EXCEPT !.kind = "read", !.log = name, !.ok = r.ok,
                                       !.before = r.entries, !.seen = files[name],
                                       !.earlier = obs[name]]
           /\ obs' = IF obs[name].kept /\ r.ok
                     THEN [obs EXCEPT ![name] =
                              [kept |-> TRUE, read |-> TRUE, entries |-> r.entries,
                               replaced |-> FALSE, completed |-> FALSE]]
                     ELSE obs
    /\ procs' = [procs EXCEPT ![p] = Idle]
    /\ UNCHANGED <<bot, calls, session, scheduler, dirs, files, disk, backups, snaps, clock, issued, acked,
                   ackedSince, ncompact, appended, made>>

\* rebuildStateFromLog(logName) is called.
RebuildCall(p, name) ==
    /\ procs[p].kind = "idle"
    /\ procs' = [procs EXCEPT ![p] =
                    [Idle EXCEPT !.kind = "rebuild", !.pc = "rebuildRead", !.log = name]]
    /\ UNCHANGED <<bot, calls, obs, session, scheduler, dirs, files, disk, backups, snaps, clock, issued, acked,
                   ackedSince, ncompact, appended, made, last>>

\* await readLogEntries(logName), then the replay loop; the call returns the
\* state, or throws when the read threw.  last.again says that the call
\* that returned before it was a rebuild of the same log, which had the
\* content it has now, and last.prev is what that one returned.
RebuildRead(p) ==
    /\ procs[p].pc = "rebuildRead"
    /\ LET name == procs[p].log
           r == ReadLogEntries(files[name])
       IN  last' = [LastNone EXCEPT
                       !.kind = "rebuild", !.log = name, !.ok = r.ok,
                       !.before = r.entries, !.seen = files[name],
                       !.result = IF r.ok THEN RebuildStateFromLog(files[name])
                                  ELSE EmptyMap,
                       !.again = /\ last.kind = "rebuild" /\ last.log = name
                                 /\ last.ok /\ r.ok
                                 /\ last.seen = files[name],
                       !.prev = last.result]
    /\ procs' = [procs EXCEPT ![p] = Idle]
    /\ UNCHANGED <<bot, calls, obs, session, scheduler, dirs, files, disk, backups, snaps, clock, issued, acked,
                   ackedSince, ncompact, appended, made>>

\* getLogSize(logName): fs.stat, and the size is returned.
GetLogSize(name) ==
    /\ Quiet
    /\ last' = [LastNone EXCEPT !.kind = "getLogSize", !.log = name,
                                !.seen = files[name], !.size = LogSize(files[name])]
    /\ UNCHANGED <<bot, calls, obs, session, scheduler, dirs, files, disk, backups, snaps, clock, procs, issued, acked,
                   ackedSince, ncompact, appended, made>>

---------------------------------------------------------------------------
(* compactLog *)

CompactCall(p, name) ==
    /\ procs[p].kind = "idle"
    /\ procs' = [procs EXCEPT ![p] =
                    [Idle EXCEPT !.kind = "compact", !.pc = "ensure", !.log = name,
                                 !.before = ReadLogEntries(files[name]).entries,
                                 !.size = LogSize(files[name])]]
    /\ last' = LastNone
    /\ UNCHANGED <<bot, calls, obs, session, scheduler, dirs, files, disk, backups, snaps, clock, issued, acked,
                   ackedSince, ncompact, appended, made>>

CheckpointOfEmpty(state) == CheckpointEntry(EmptyMap)

CheckpointOfAsSet(state) == SetDataEntry(state)

\* The checkpoint entry compactLog builds from the rebuilt state.
CheckpointOf(state) == CheckpointEntry(state)

CompactReadSkipping(p) ==
    /\ procs[p].pc = "read"
    /\ procs' = [procs EXCEPT
                    ![p].pc = "copy",
                    ![p].state = Replay(EmptyMap,
                                        ReadLogEntriesSkipping(files[procs[p].log]).entries),
                    ![p].ts = clock]
    /\ UNCHANGED <<bot, calls, obs, session, scheduler, dirs, files, disk, backups, snaps, clock, issued, acked,
                   ackedSince, ncompact, appended, made, last>>

\* rebuildStateFromLog(logName), then the checkpoint and the backup path,
\* which takes Date.now().  A log that does not read makes the call throw.
CompactRead(p) ==
    /\ procs[p].pc = "read"
    /\ LET name == procs[p].log
           r == ReadLogEntries(files[name])
       IN  IF r.ok
           THEN /\ procs' = [procs EXCEPT ![p].pc = "copy",
                                          ![p].state = Replay(EmptyMap, r.entries),
                                          ![p].ts = clock]
                /\ last' = last
           ELSE /\ procs' = [procs EXCEPT ![p] = Idle]
                /\ last' = [LastNone EXCEPT !.kind = "compact", !.log = name,
                                            !.ok = FALSE, !.outcome = "unreadable"]
    /\ UNCHANGED <<bot, calls, obs, session, scheduler, dirs, files, disk, backups, snaps, clock, issued, acked,
                   ackedSince, ncompact, appended, made>>

\* fs.copyFile(logPath, backupPath); a missing log (ENOENT) is skipped.
CompactCopy(p) ==
    /\ procs[p].pc = "copy"
    /\ LET name == procs[p].log
           ts == procs[p].ts
       IN  IF files[name].exists
           THEN /\ backups' = [backups EXCEPT ![name] = Put(@, ts, files[name].lines)]
                /\ made' = [made EXCEPT ![name] = LastOf(Append(@, ts), KeepBackups)]
           ELSE UNCHANGED <<bot, backups, made>>
    /\ procs' = [procs EXCEPT ![p].pc = "truncate"]
    /\ UNCHANGED <<bot, calls, obs, session, scheduler, dirs, files, disk, snaps, clock, issued, acked, ackedSince,
                   ncompact, appended, last>>

\* fs.writeFile(logPath, logLine) opens the file with flag 'w', which
\* empties it, ...
CompactTruncate(p) ==
    /\ procs[p].pc = "truncate"
    /\ LET name == procs[p].log
       IN  /\ files' = [files EXCEPT ![name] = FileOf(<<>>)]
           /\ issued' = [issued EXCEPT ![name] = <<>>]
           /\ ackedSince' = [ackedSince EXCEPT ![name] = {}]
           /\ obs' = [obs EXCEPT ![name].replaced = obs[name].read]
    /\ procs' = [procs EXCEPT ![p].pc = "write"]
    /\ UNCHANGED <<bot, calls, session, scheduler, dirs, disk, backups, snaps, clock, acked, ncompact, appended, made, last>>

CompactWriteAppending(p) ==
    /\ procs[p].pc = "write"
    /\ LET name == procs[p].log
           line == Stringify(CheckpointEntry(procs[p].state))
           old == [i \in DOMAIN procs[p].before |-> Stringify(procs[p].before[i])]
       IN  files' = [files EXCEPT ![name] = FileOf(old \o <<line>>)]
    /\ procs' = [procs EXCEPT ![p].pc = "readdir"]
    /\ UNCHANGED <<bot, calls, obs, session, scheduler, dirs, disk, backups, snaps, clock, issued, acked,
                   ackedSince, ncompact, appended, made, last>>

\* ... and then writes the checkpoint line from offset 0.  Lines appended
\* since the file was emptied are overwritten from their first byte on: they
\* are covered whole, or a tail of them is left behind the checkpoint line.
CompactWrite(p) ==
    /\ procs[p].pc = "write"
    /\ LET name == procs[p].log
           line == Stringify(CheckpointOf(procs[p].state))
       IN  /\ \E rest \in (IF files[name].lines = <<>> THEN {<<>>} ELSE {<<>>, <<Fragment>>}) :
                 files' = [files EXCEPT ![name] = FileOf(<<line>> \o rest)]
           /\ ackedSince' = [ackedSince EXCEPT ![name] = {}]
           /\ obs' = [obs EXCEPT ![name].replaced = obs[name].read]
    /\ procs' = [procs EXCEPT ![p].pc = "readdir"]
    /\ UNCHANGED <<bot, calls, session, scheduler, dirs, disk, backups, snaps, clock, issued, acked, ncompact,
                   appended, made, last>>

\* compactLog returns.
CompactReturn(p) ==
    LET name == procs[p].log
    IN  /\ procs' = [procs EXCEPT ![p] = Idle]
        /\ ncompact' = [ncompact EXCEPT ![name] =
                            IF @ > 0 /\ ~appended[name] THEN 1
                            ELSE IF @ > KeepBackups THEN @ ELSE @ + 1]
        /\ appended' = [appended EXCEPT ![name] = FALSE]
        /\ obs' = [obs EXCEPT ![name].completed = obs[name].read]
        /\ last' = [LastNone EXCEPT !.kind = "compact", !.log = name,
                                    !.before = procs[p].before,
                                    !.sizeBefore = procs[p].size,
                                    !.during = procs[p].during,
                                    !.window = procs[p].window,
                                    !.checkpointed = procs[p].state]

\* fs.readdir(LOGS_DIR), the backups of this log newest first; with at most
\* three of them the loop does not run and the call returns.
CompactReaddir(p) ==
    /\ procs[p].pc = "readdir"
    /\ LET todo == BackupsToDelete(DOMAIN backups[procs[p].log])
       IN  IF todo = <<>>
           THEN CompactReturn(p)
           ELSE /\ procs' = [procs EXCEPT ![p].pc = "unlink", ![p].todo = todo]
                /\ UNCHANGED <<bot, ncompact, appended, last, obs>>
    /\ UNCHANGED <<bot, calls, session, scheduler, dirs, files, disk, backups, snaps, clock, issued, acked,
                   ackedSince, made>>

\* One round of the cleanup loop: fs.unlink of the next old backup.
CompactUnlink(p) ==
    /\ procs[p].pc = "unlink"
    /\ LET name == procs[p].log
           ts == Head(procs[p].todo)
       IN  /\ backups' = [backups EXCEPT ![name] = Remove(@, ts)]
           /\ IF Tail(procs[p].todo) = <<>>
              THEN CompactReturn(p)
              ELSE /\ procs' = [procs EXCEPT ![p].todo = Tail(@)]
                   /\ UNCHANGED <<bot, ncompact, appended, last, obs>>
    /\ UNCHANGED <<bot, calls, session, scheduler, dirs, files, disk, snaps, clock, issued, acked, ackedSince,
                   made>>

\* The file system call compactLog is awaiting rejects (EACCES, ENOSPC, EIO,
\* ...; for copyFile an error other than ENOENT) and compactLog throws.  The
\* call that failed has done nothing, but for the write of fs.writeFile,
\* which fails on a file it has emptied and may have written a part of the
\* line to.
CompactFails(p) ==
    /\ procs[p].kind = "compact"
    /\ LET name == procs[p].log
       IN  /\ IF procs[p].pc = "write"
              THEN \E rest \in {<<>>, <<Fragment>>} :
                      files' = [files EXCEPT ![name] = FileOf(files[name].lines \o rest)]
              ELSE files' = files
           /\ obs' = IF procs[p].pc = "write"
                     THEN [obs EXCEPT ![name].replaced = obs[name].read]
                     ELSE obs
           /\ last' = [LastNone EXCEPT !.kind = "compact", !.log = name, !.ok = FALSE,
                                       !.before = procs[p].before]
    /\ procs' = [procs EXCEPT ![p] = Idle]
    /\ UNCHANGED <<bot, calls, session, scheduler, dirs, disk, backups, snaps, clock, issued, acked,
                   ackedSince, ncompact, appended, made>>

---------------------------------------------------------------------------
(* needsCompaction and the CompactionScheduler *)

\* needsCompaction's default threshold: 1024 * 1024 bytes
Threshold == 1048576

NeedsCompactionAtOrAbove(size, threshold) == size >= threshold

\* needsCompaction: size > threshold
NeedsCompaction(size, threshold) == size > threshold

\* needsCompaction(logName), called by itself: getLogSize and the comparison
\* with the default threshold.
NeedsCompactionOf(name) ==
    /\ Quiet
    /\ last' = [LastNone EXCEPT
                    !.kind = "needsCompaction", !.log = name,
                    !.seen = files[name], !.size = LogSize(files[name]),
                    !.needs = NeedsCompaction(LogSize(files[name]), Threshold)]
    /\ UNCHANGED <<bot, calls, obs, session, scheduler, dirs, files, disk, backups, snaps,
                   clock, procs, issued, acked, ackedSince, ncompact, appended, made>>

\* The lists of log names start() is called with.
NameLists == {<<"players", "game_state">>, <<"game_state">>}

\* The timer setInterval returns: one that is not armed yet.
NewTimer ==
    CHOOSE i \in 1..(MaxTimers + 1) :
        /\ i \notin DOMAIN scheduler.timers
        /\ \A j \in 1..(i - 1) : j \in DOMAIN scheduler.timers

\* isRunning, intervalId and the timers armed, as last keeps them.
Lifecycle(sch) == [sch EXCEPT !.ticks = SchedulerInit.ticks]

SchedStartUnguarded(names) ==
    /\ Cardinality(DOMAIN scheduler.timers) < MaxTimers
    /\ scheduler' = [scheduler EXCEPT !.isRunning = TRUE,
                                      !.intervalId = NewTimer,
                                      !.timers = Put(@, NewTimer, names)]
    /\ last' = [LastNone EXCEPT !.kind = "start", !.was = Lifecycle(scheduler),
                                !.names = names]
    /\ UNCHANGED <<bot, calls, obs, session, dirs, files, disk, backups, snaps, clock, procs, issued, acked,
                   ackedSince, ncompact, appended, made>>

\* start(logNames): nothing when already running; else isRunning is set and
\* setInterval arms a timer whose callback holds logNames.
SchedStart(names) ==
    /\ Cardinality(DOMAIN scheduler.timers) < MaxTimers
    /\ IF scheduler.isRunning
       THEN UNCHANGED scheduler
       ELSE scheduler' = [scheduler EXCEPT !.isRunning = TRUE,
                                           !.intervalId = NewTimer,
                                           !.timers = Put(@, NewTimer, names)]
    /\ last' = [LastNone EXCEPT !.kind = "start", !.was = Lifecycle(scheduler),
                                !.names = names]
    /\ UNCHANGED <<bot, calls, obs, session, dirs, files, disk, backups, snaps, clock, procs, issued, acked,
                   ackedSince, ncompact, appended, made>>

SchedStopNoClear ==
    /\ scheduler' = [scheduler EXCEPT !.intervalId = 0, !.isRunning = FALSE]
    /\ last' = [LastNone EXCEPT !.kind = "stop", !.was = Lifecycle(scheduler)]
    /\ UNCHANGED <<bot, calls, obs, session, dirs, files, disk, backups, snaps, clock, procs, issued, acked,
                   ackedSince, ncompact, appended, made>>

SchedStopStillRunning ==
    /\ scheduler' = [scheduler EXCEPT
                        !.timers = IF scheduler.intervalId # 0
                                   THEN Remove(@, scheduler.intervalId) ELSE @,
                        !.intervalId = 0]
    /\ last' = [LastNone EXCEPT !.kind = "stop", !.was = Lifecycle(scheduler)]
    /\ UNCHANGED <<bot, calls, obs, session, dirs, files, disk, backups, snaps, clock, procs, issued, acked,
                   ackedSince, ncompact, appended, made>>

\* stop(): clearInterval(intervalId) when there is one, intervalId = null,
\* isRunning = false.
SchedStop ==
    /\ scheduler' = [scheduler EXCEPT
                        !.timers = IF scheduler.intervalId # 0
                                   THEN Remove(@, scheduler.intervalId) ELSE @,
                        !.intervalId = 0,
                        !.isRunning = FALSE]
    /\ last' = [LastNone EXCEPT !.kind = "stop", !.was = Lifecycle(scheduler)]
    /\ UNCHANGED <<bot, calls, obs, session, dirs, files, disk, backups, snaps, clock, procs, issued, acked,
                   ackedSince, ncompact, appended, made>>

\* The tick goes on to the next log name, or ends after the last one.
Advance(tick) ==
    IF tick.idx < Len(tick.names)
    THEN [tick EXCEPT !.idx = @ + 1, !.pc = "stat"]
    ELSE NoTick

\* An armed timer fires: its callback starts in the first free slot, at the
\* first of its log names.  Nothing makes it wait for an earlier callback.
TickFire(id, t) ==
    /\ id \in DOMAIN scheduler.timers
    /\ ~scheduler.ticks[t].active /\ procs[t].kind = "idle"
    /\ \A u \in 1..(t - 1) : scheduler.ticks[u].active
    /\ LET names == scheduler.timers[id]
       IN  scheduler' = [scheduler EXCEPT !.ticks[t] =
                            IF names = <<>> THEN NoTick
                            ELSE [active |-> TRUE, names |-> names, idx |-> 1,
                                  pc |-> "stat"]]
    /\ last' = [LastNone EXCEPT !.kind = "tick", !.ok = scheduler.isRunning]
    /\ UNCHANGED <<bot, calls, obs, session, dirs, files, disk, backups, snaps, clock, procs, issued, acked,
                   ackedSince, ncompact, appended, made>>

\* await needsCompaction(logName): getLogSize and the comparison; when it
\* holds compactLog(logName) is called, else the loop goes on.
TickStat(t) ==
    /\ scheduler.ticks[t].pc = "stat"
    /\ LET tick == scheduler.ticks[t]
           name == tick.names[tick.idx]
           size == LogSize(files[name])
           needs == NeedsCompaction(size, Threshold)
       IN  /\ IF needs
              THEN /\ procs' = [procs EXCEPT ![t] =
                                   [Idle EXCEPT !.kind = "compact", !.pc = "ensure",
                                                !.log = name,
                                                !.before = ReadLogEntries(files[name]).entries]]
                   /\ scheduler' = [scheduler EXCEPT !.ticks[t].pc = "compacting"]
              ELSE /\ procs' = procs
                   /\ scheduler' = [scheduler EXCEPT !.ticks[t] = Advance(tick)]
           /\ last' = [LastNone EXCEPT !.kind = "needsCompaction", !.log = name,
                                       !.size = size, !.seen = files[name],
                                       !.needs = needs, !.names = tick.names,
                                       !.idx = tick.idx]
    /\ UNCHANGED <<bot, calls, obs, session, dirs, files, disk, backups, snaps, clock, issued, acked,
                   ackedSince, ncompact, appended, made>>

\* await needsCompaction(logName) rejects: fs.stat failed with an error
\* other than ENOENT, which getLogSize throws on.  The catch of the loop
\* body takes it and the loop goes on.
TickStatFails(t) ==
    /\ scheduler.ticks[t].pc = "stat"
    /\ LET tick == scheduler.ticks[t]
       IN  /\ scheduler' = [scheduler EXCEPT !.ticks[t] = Advance(tick)]
           /\ last' = [LastNone EXCEPT !.kind = "needsCompaction", !.ok = FALSE,
                                       !.log = tick.names[tick.idx],
                                       !.names = tick.names, !.idx = tick.idx]
    /\ UNCHANGED <<bot, calls, obs, session, dirs, files, disk, backups, snaps, clock, procs, issued, acked,
                   ackedSince, ncompact, appended, made>>

\* The loop without its try/catch: a compactLog that threw ends the callback.
TickResumeUncaught(t) ==
    /\ scheduler.ticks[t].pc = "compacting"
    /\ procs[t].kind = "idle"
    /\ scheduler' = [scheduler EXCEPT !.ticks[t] =
                         IF last.kind = "compact" /\ ~last.ok THEN NoTick
                         ELSE Advance(scheduler.ticks[t])]
    /\ UNCHANGED <<bot, calls, obs, session, dirs, files, disk, backups, snaps, clock, procs, issued, acked,
                   ackedSince, ncompact, appended, made, last>>

\* await compactLog(logName) is over, by return or by an exception that the
\* catch of the loop body takes: the loop goes on.
TickResume(t) ==
    /\ scheduler.ticks[t].pc = "compacting"
    /\ procs[t].kind = "idle"
    /\ scheduler' = [scheduler EXCEPT !.ticks[t] = Advance(scheduler.ticks[t])]
    /\ UNCHANGED <<bot, calls, obs, session, dirs, files, disk, backups, snaps, clock, procs, issued, acked,
                   ackedSince, ncompact, appended, made, last>>

---------------------------------------------------------------------------
(* The storage facade: services/storage.js *)

Datasets == [players |-> "players", game_state |-> "game_state"]

Users == {"u1"}

Channels == {"c1"}

Scores == {100, 150}

GameStates == {[round |-> 1], [round |-> 2]}

\* updatePlayerStats keeps only the last 50 games of a player
HistoryCap == 50

\* readJSON(filePath, defaultValue): a missing file reads as the default, a
\* file that does not parse makes the call throw.
ReadJSONThrowing(snap, defaultValue) ==
    IF ~snap.exists \/ ~snap.parses THEN [ok |-> FALSE, value |-> defaultValue]
    ELSE [ok |-> TRUE, value |-> snap.data]

ReadJSON(snap, defaultValue) ==
    IF ~snap.exists THEN [ok |-> TRUE, value |-> defaultValue]
    ELSE IF ~snap.parses THEN [ok |-> FALSE, value |-> defaultValue]
    ELSE [ok |-> TRUE, value |-> snap.data]

NewStats(userId, username) ==
    [userId |-> userId, username |-> username, totalGames |-> 0, totalWins |-> 0,
     totalScore |-> 0, averageScore |-> 0, bestScore |-> 0, gamesHistory |-> <<>>]

\* Math.round(a / b) for a >= 0, b > 0
RoundDiv(a, b) == (2 * a + b) \div (2 * b)

Max(a, b) == IF a >= b THEN a ELSE b

UpdatedStatsOverwriting(players, userId, username, score, isWinner) ==
    [userId |-> userId, username |-> username, totalGames |-> 1,
     totalWins |-> IF isWinner THEN 1 ELSE 0, totalScore |-> score,
     averageScore |-> score, bestScore |-> Max(0, score),
     gamesHistory |-> <<[score |-> score, isWinner |-> isWinner]>>]

UpdatedStatsKeepingOldest(players, userId, username, score, isWinner) ==
    LET old == IF userId \in DOMAIN players THEN players[userId]
               ELSE NewStats(userId, username)
        games == old.totalGames + 1
        total == old.totalScore + score
        history == Append(old.gamesHistory, [score |-> score, isWinner |-> isWinner])
    IN  [userId |-> old.userId,
         username |-> username,
         totalGames |-> games,
         totalWins |-> IF isWinner THEN old.totalWins + 1 ELSE old.totalWins,
         totalScore |-> total,
         averageScore |-> RoundDiv(total, games),
         bestScore |-> Max(old.bestScore, score),
         gamesHistory |-> IF Len(history) > HistoryCap
                          THEN SubSeq(history, 1, HistoryCap) ELSE history]

\* The stats updatePlayerStats computes from the players it loaded.
UpdatedStats(players, userId, username, score, isWinner) ==
    LET old == IF userId \in DOMAIN players THEN players[userId]
               ELSE NewStats(userId, username)
        games == old.totalGames + 1
        total == old.totalScore + score
        history == Append(old.gamesHistory, [score |-> score, isWinner |-> isWinner])
    IN  [userId |-> old.userId,
         username |-> username,
         totalGames |-> games,
         totalWins |-> IF isWinner THEN old.totalWins + 1 ELSE old.totalWins,
         totalScore |-> total,
         averageScore |-> RoundDiv(total, games),
         bestScore |-> Max(old.bestScore, score),
         gamesHistory |-> LastOf(history, HistoryCap)]

\* The facade call of p has read its dataset and is writing it back.
Persisting(p) == procs[p].pc \in {"ensureData", "snapTruncate", "snapWrite"}

\* The games counted for a player so far leave room for one more: up to
\* MaxGames for a new player, and up to MaxGames past the cap of the history
\* for a player who is one game short of it or beyond.
WithinGames(n) ==
    \/ n < MaxGames
    \/ n >= HistoryCap - 1 /\ n < HistoryCap + MaxGames

\* updatePlayerStats(userId, username, score, isWinner) is called.
UpdateCall(p, userId, score, isWinner) ==
    /\ procs[p].kind = "idle"
    /\ LET r == ReadJSON(snaps[Datasets.players], EmptyMap)
       IN  r.ok /\ userId \in DOMAIN r.value =>
               WithinGames(r.value[userId].totalGames)
    /\ procs' = [procs EXCEPT ![p] =
                    [Idle EXCEPT !.kind = "updatePlayerStats", !.pc = "load",
                                 !.log = Datasets.players, !.key = userId,
                                 !.value = [score |-> score, isWinner |-> isWinner]]]
    /\ last' = LastNone
    /\ calls' = IF calls.recording
                THEN [calls EXCEPT !.by =
                         Put(@, userId,
                             Append(IF userId \in DOMAIN @ THEN @[userId] ELSE <<>>,
                                    [score |-> score, isWinner |-> isWinner]))]
                ELSE calls
    /\ UNCHANGED <<bot, obs, session, scheduler, dirs, files, disk, backups, snaps, clock, issued, acked,
                   ackedSince, ncompact, appended, made>>

\* saveGameState(channelId, state) is called.
SaveCall(p, channelId, state) ==
    /\ procs[p].kind = "idle"
    /\ procs' = [procs EXCEPT ![p] =
                    [Idle EXCEPT !.kind = "saveGameState", !.pc = "load",
                                 !.log = Datasets.game_state, !.key = channelId,
                                 !.value = state]]
    /\ last' = LastNone
    /\ UNCHANGED <<bot, calls, obs, session, scheduler, dirs, files, disk, backups, snaps, clock, issued, acked,
                   ackedSince, ncompact, appended, made>>

\* clearGameState(channelId) is called.
ClearCall(p, channelId) ==
    /\ procs[p].kind = "idle"
    /\ procs' = [procs EXCEPT ![p] =
                    [Idle EXCEPT !.kind = "clearGameState", !.pc = "load",
                                 !.log = Datasets.game_state, !.key = channelId]]
    /\ last' = LastNone
    /\ UNCHANGED <<bot, calls, obs, session, scheduler, dirs, files, disk, backups, snaps, clock, issued, acked,
                   ackedSince, ncompact, appended, made>>

\* What a facade write makes of the mapping it loaded.
Written(kind, loaded, key, value) ==
    IF kind = "updatePlayerStats"
    THEN Put(loaded, key, UpdatedStats(loaded, key, "name", value.score, value.isWinner))
    ELSE IF kind = "saveGameState" THEN Put(loaded, key, value)
    ELSE Remove(loaded, key)

\* The first await of a facade write: loadPlayers() / readJSON(...), then the
\* synchronous update of the loaded mapping.  A snapshot that does not parse
\* makes the call throw.
FacadeLoad(p) ==
    /\ procs[p].pc = "load"
    /\ LET r == ReadJSON(snaps[procs[p].log], EmptyMap)
           new == Written(procs[p].kind, r.value, procs[p].key, procs[p].value)
       IN  IF r.ok
           THEN /\ procs' = [procs EXCEPT
                                ![p].pc = "ensureData",
                                ![p].state = r.value,
                                ![p].loaded = new,
                                ![p].value = IF procs[p].kind = "clearGameState"
                                             THEN NoValue ELSE new[procs[p].key]]
                /\ last' = last
           ELSE /\ procs' = [procs EXCEPT ![p] = Idle]
                /\ last' = [LastNone EXCEPT !.kind = procs[p].kind, !.ok = FALSE,
                                            !.log = procs[p].log, !.key = procs[p].key]
    /\ calls' = IF calls.recording /\ ~ReadJSON(snaps[procs[p].log], EmptyMap).ok
                THEN [calls EXCEPT !.failed = TRUE]
                ELSE calls
    /\ UNCHANGED <<bot, obs, session, scheduler, dirs, files, disk, backups, snaps, clock, issued, acked,
                   ackedSince, ncompact, appended, made>>

\* writeJSON: ensureDataDir, ...
EnsureDataDir(p) ==
    /\ procs[p].pc = "ensureData"
    /\ dirs' = [dirs EXCEPT !.data = TRUE]
    /\ procs' = [procs EXCEPT ![p].pc = "snapTruncate"]
    /\ UNCHANGED <<bot, calls, obs, session, scheduler, files, disk, backups, snaps, clock, issued, acked, ackedSince,
                   ncompact, appended, made, last>>

\* ... then fs.writeFile(filePath, JSON.stringify(data)): the file is opened
\* with flag 'w', which empties it, ...
SnapTruncate(p) ==
    /\ procs[p].pc = "snapTruncate"
    /\ snaps' = [snaps EXCEPT ![procs[p].log] =
                    [exists |-> TRUE, parses |-> FALSE, data |-> EmptyMap]]
    /\ procs' = [procs EXCEPT ![p].pc = "snapWrite"]
    /\ UNCHANGED <<bot, calls, obs, session, scheduler, dirs, files, disk, backups, clock, issued, acked, ackedSince,
                   ncompact, appended, made, last>>

\* ... and written; the facade call returns.  last.prev is the mapping the
\* call had loaded.
SnapWrite(p) ==
    /\ procs[p].pc = "snapWrite"
    /\ snaps' = [snaps EXCEPT ![procs[p].log] =
                    [exists |-> TRUE, parses |-> TRUE, data |-> procs[p].loaded]]
    /\ last' = [LastNone EXCEPT !.kind = procs[p].kind, !.log = procs[p].log,
                                !.key = procs[p].key, !.value = procs[p].value,
                                !.prev = procs[p].state]
    /\ procs' = [procs EXCEPT ![p] = Idle]
    /\ UNCHANGED <<bot, calls, obs, session, scheduler, dirs, files, disk, backups, clock, issued, acked, ackedSince,
                   ncompact, appended, made>>

\* loadPlayers() and getAllGameStates(): readJSON(file, {}).
FacadeRead(dataset) ==
    /\ Quiet
    /\ LET r == ReadJSON(snaps[dataset], EmptyMap)
       IN  last' = [LastNone EXCEPT
                       !.kind = IF dataset = Datasets.players
                                THEN "loadPlayers" ELSE "getAllGameStates",
                       !.log = dataset, !.ok = r.ok, !.result = r.value]
    /\ UNCHANGED <<bot, calls, obs, session, scheduler, dirs, files, disk, backups, snaps, clock, procs, issued, acked,
                   ackedSince, ncompact, appended, made>>

\* JavaScript null
Null == [null |-> TRUE]

\* loadGameState(channelId): readJSON(GAME_STATE_FILE, {}), then
\* allStates[channelId] || null.
LoadGameState(channelId) ==
    /\ Quiet
    /\ LET r == ReadJSON(snaps[Datasets.game_state], EmptyMap)
       IN  last' = [LastNone EXCEPT
                       !.kind = "loadGameState", !.log = Datasets.game_state,
                       !.ok = r.ok, !.key = channelId,
                       !.value = IF r.ok /\ channelId \in DOMAIN r.value
                                 THEN r.value[channelId] ELSE Null]
    /\ UNCHANGED <<bot, calls, obs, session, scheduler, dirs, files, disk, backups, snaps, clock, procs, issued, acked,
                   ackedSince, ncompact, appended, made>>

---------------------------------------------------------------------------
(* The game session of one channel: game.js, NameThatArtistGame *)

GameUsers == {"u1", "u2"}

\* The rounds a game is started with.
RoundCounts == {1, 2}

\* config.game.baseScore
BaseScore == 100

\* config.game.roundTimeSeconds
RoundTimeSeconds == 15

\* Seconds between the start of a round and an answer: in time (6 s), and
\* after the time of the round.
Elapsed == {6, 20}

\* The choices of a round, one of which is the artist of the token.
Choices == <<[label |-> "1", isCorrect |-> TRUE], [label |-> "2", isCorrect |-> FALSE]>>

\* The labels players send: those of the choices and one that is none.
Labels == {"1", "2", "9"}

\* currentRound.choices.find((c) => c.label === choiceLabel)
FindChoice(label) == {i \in DOMAIN Choices : Choices[i].label = label}

\* Math.round(baseScore * (timeRemaining / roundTimeSeconds))
AnswerScore(elapsed) ==
    RoundDiv(BaseScore * Max(0, RoundTimeSeconds - elapsed), RoundTimeSeconds)

NewPlayer == [score |-> 0, correctAnswers |-> 0, incorrectAnswers |-> 0]

\* processAnswer can go past its first return: the session is active, and
\* session.rounds[session.currentRound] is a round.
InRound(s) == s.exists /\ s.isActive /\ s.currentRound < s.totalRounds

\* A timer of index.js: the callback to run (display: displayRound,
\* round: endRound, delay: the rest of endRound after its delay) and the
\* number of the session that was the channel's when the timer was set.
Timer(kind, n) == [kind |-> kind, of |-> n]

\* this.tokens.length: the tokens the game was initialized with
TokenCount == 2

\* The session startGame makes: at round 0, with no player.
NewSession(rounds) ==
    [exists |-> TRUE, isActive |-> TRUE, currentRound |-> 0,
     totalRounds |-> rounds,
     answered |-> [i \in 1..rounds |-> {}],
     players |-> EmptyMap, pc |-> "playing", todo |-> <<>>,
     started |-> session.started + 1]

StartGameReplacing(rounds) ==
    /\ session.exists \/ session.started < bot.sessions
    /\ procs[1].kind = "idle"
    /\ session' = NewSession(IF rounds > TokenCount THEN TokenCount ELSE rounds)
    /\ last' = [LastNone EXCEPT !.kind = "startGame"]
    /\ UNCHANGED <<bot, calls, obs, scheduler, dirs, files, disk, backups, snaps, clock,
                   procs, issued, acked, ackedSince, ncompact, appended, made>>

\* startGame(channelId, userId, username, rounds), the game being
\* initialized: refused while activeSessions holds a session of the channel,
\* and when the tokens are fewer than the rounds; else the session is made,
\* at round 0, and the command sets the timer that displays its first round.
\* A startGame while the endGame of a session deleted by /stopgame is still
\* saving is left out.
StartGame(rounds) ==
    /\ session.exists \/ (session.started < bot.sessions /\ session.pc # "saving")
    /\ procs[1].kind = "idle"
    /\ IF session.exists
       THEN /\ session' = session
            /\ last' = [LastNone EXCEPT !.kind = "startGame", !.ok = FALSE,
                                        !.outcome = "inProgress"]
            /\ bot' = bot
       ELSE IF TokenCount < rounds
       THEN /\ session' = session
            /\ last' = [LastNone EXCEPT !.kind = "startGame", !.ok = FALSE,
                                        !.outcome = "notEnoughTokens"]
            /\ bot' = bot
       ELSE /\ session' = NewSession(rounds)
            /\ last' = [LastNone EXCEPT !.kind = "startGame"]
            /\ bot' = IF bot.armed
                      THEN [bot EXCEPT !.timers =
                               @ \cup {Timer("display", session.started + 1)}]
                      ELSE bot
    /\ UNCHANGED <<calls, obs, scheduler, dirs, files, disk, backups, snaps, clock,
                   procs, issued, acked, ackedSince, ncompact, appended, made>>

\* What processAnswer makes of the session once the choice is found.
Answered(s, userId, isCorrect, score) ==
    LET old == IF userId \in DOMAIN s.players THEN s.players[userId] ELSE NewPlayer
        new == IF isCorrect
               THEN [old EXCEPT !.score = @ + score, !.correctAnswers = @ + 1]
               ELSE [old EXCEPT !.incorrectAnswers = @ + 1]
    IN  [s EXCEPT !.answered[s.currentRound + 1] = @ \cup {userId},
                  !.players = Put(@, userId, new)]

ProcessAnswerUnchecked(userId, choiceLabel) ==
    /\ IF ~InRound(session) \/ FindChoice(choiceLabel) = {}
       THEN /\ session' = session
            /\ last' = [LastNone EXCEPT !.kind = "processAnswer", !.ok = FALSE,
                                        !.key = userId, !.outcome = "rejected"]
       ELSE LET c == Choices[CHOOSE i \in FindChoice(choiceLabel) : TRUE]
            IN  \E elapsed \in Elapsed :
                   /\ session' = Answered(session, userId, c.isCorrect,
                                          AnswerScore(elapsed))
                   /\ last' = [LastNone EXCEPT
                                   !.kind = "processAnswer", !.key = userId,
                                   !.outcome = IF c.isCorrect THEN "correct" ELSE "wrong"]
    /\ UNCHANGED <<bot, calls, obs, scheduler, dirs, files, disk, backups, snaps, clock,
                   procs, issued, acked, ackedSince, ncompact, appended, made>>

\* processAnswer(channelId, userId, username, choiceLabel).  It has no
\* await, so it runs in one step.  With the game over and the session not
\* yet ended session.rounds[session.currentRound] is undefined and the call
\* throws.
ProcessAnswer(userId, choiceLabel) ==
    /\ IF ~session.exists \/ ~session.isActive
       THEN /\ session' = session
            /\ last' = [LastNone EXCEPT !.kind = "processAnswer", !.ok = FALSE,
                                        !.key = userId, !.outcome = "noGame"]
       ELSE IF session.currentRound >= session.totalRounds
       THEN /\ session' = session
            /\ last' = [LastNone EXCEPT !.kind = "processAnswer", !.ok = FALSE,
                                        !.key = userId, !.outcome = "threw"]
       ELSE IF userId \in session.answered[session.currentRound + 1]
       THEN /\ session' = session
            /\ last' = [LastNone EXCEPT !.kind = "processAnswer", !.ok = FALSE,
                                        !.key = userId, !.outcome = "alreadyAnswered"]
       ELSE IF FindChoice(choiceLabel) = {}
       THEN /\ session' = session
            /\ last' = [LastNone EXCEPT !.kind = "processAnswer", !.ok = FALSE,
                                        !.key = userId, !.outcome = "invalid"]
       ELSE LET c == Choices[CHOOSE i \in FindChoice(choiceLabel) : TRUE]
            IN  \E elapsed \in Elapsed :
                   /\ session' = Answered(session, userId, c.isCorrect,
                                          AnswerScore(elapsed))
                   /\ last' = [LastNone EXCEPT
                                   !.kind = "processAnswer", !.key = userId,
                                   !.outcome = IF c.isCorrect THEN "correct" ELSE "wrong"]
    /\ UNCHANGED <<bot, calls, obs, scheduler, dirs, files, disk, backups, snaps, clock,
                   procs, issued, acked, ackedSince, ncompact, appended, made>>

\* nextRound(channelId): currentRound++, whether or not the session is
\* active; the game is over when no round is left.  Calls made after the
\* game is over are left out, which keeps currentRound bounded.
NextRound ==
    /\ session.exists => session.currentRound < session.totalRounds
    /\ IF ~session.exists
       THEN /\ session' = session
            /\ last' = [LastNone EXCEPT !.kind = "nextRound", !.ok = FALSE]
       ELSE /\ session' = [session EXCEPT !.currentRound = @ + 1]
            /\ last' = [LastNone EXCEPT
                            !.kind = "nextRound",
                            !.outcome = IF session.currentRound + 1 >= session.totalRounds
                                        THEN "gameOver" ELSE "round"]
    /\ UNCHANGED <<bot, calls, obs, scheduler, dirs, files, disk, backups, snaps, clock,
                   procs, issued, acked, ackedSince, ncompact, appended, made>>

\* getFinalScores(session): the players by score, highest first, each with
\* whether the score is the top score (scores[0]?.score || 0).
RECURSIVE ByScore(_, _)
ByScore(players, top) ==
    IF DOMAIN players = {} THEN <<>>
    ELSE LET u == CHOOSE v \in DOMAIN players :
                      \A w \in DOMAIN players : players[w].score <= players[v].score
         IN  <<[userId |-> u, score |-> players[u].score,
                isWinner |-> players[u].score = top]>>
                 \o ByScore(Remove(players, u), top)

FinalScores(s) ==
    LET top == IF DOMAIN s.players = {} THEN 0
               ELSE LET u == CHOOSE v \in DOMAIN s.players :
                                 \A w \in DOMAIN s.players :
                                     s.players[w].score <= s.players[v].score
                    IN  s.players[u].score
    IN  ByScore(s.players, top)

\* endGame(channelId) as endRound calls it, up to its first await:
\* isActive = false, and the final scores are taken.  A second endGame from
\* endRound while the first one is saving is left out; the one of /stopgame
\* is StopGameCall.
EndGameCall ==
    /\ session.exists /\ session.pc = "playing"
    /\ session' = [session EXCEPT !.isActive = FALSE, !.pc = "saving",
                                  !.todo = FinalScores(session)]
    /\ last' = [LastNone EXCEPT !.kind = "endGame"]
    /\ UNCHANGED <<bot, calls, obs, scheduler, dirs, files, disk, backups, snaps, clock,
                   procs, issued, acked, ackedSince, ncompact, appended, made>>

\* calls, with the updatePlayerStats call for a player of the final scores.
Recorded(player) ==
    IF calls.recording
    THEN [calls EXCEPT !.by =
             Put(@, player.userId,
                 Append(IF player.userId \in DOMAIN @ THEN @[player.userId] ELSE <<>>,
                        [score |-> player.score, isWinner |-> player.isWinner]))]
    ELSE calls

\* The loop of endGame: await updatePlayerStats(...) for the next player.
EndGameUpdate ==
    /\ session.pc = "saving" /\ session.todo # <<>>
    /\ procs[1].kind = "idle"
    /\ LET player == Head(session.todo)
       IN  procs' = [procs EXCEPT ![1] =
                        [Idle EXCEPT !.kind = "updatePlayerStats", !.pc = "load",
                                     !.log = Datasets.players, !.key = player.userId,
                                     !.value = [score |-> player.score,
                                                isWinner |-> player.isWinner]]]
    /\ session' = [session EXCEPT !.todo = Tail(@)]
    /\ last' = LastNone
    /\ calls' = Recorded(Head(session.todo))
    /\ UNCHANGED <<bot, obs, scheduler, dirs, files, disk, backups, snaps, clock,
                   issued, acked, ackedSince, ncompact, appended, made>>

\* The end of endGame: this.activeSessions.delete(channelId).
EndGameDelete ==
    /\ session.pc = "saving" /\ session.todo = <<>>
    /\ procs[1].kind = "idle"
    /\ session' = [NoSession EXCEPT !.started = session.started]
    /\ last' = [LastNone EXCEPT !.kind = "endGame", !.outcome = "deleted"]
    /\ UNCHANGED <<bot, calls, obs, scheduler, dirs, files, disk, backups, snaps, clock,
                   procs, issued, acked, ackedSince, ncompact, appended, made>>

\* The /stopgame command, by the user who started the game, up to the first
\* await of its endGame: without session it replies; else isActive = false,
\* and the final scores are taken.
StopGameCall ==
    /\ bot.stop.pc = "none"
    /\ IF ~session.exists
       THEN /\ session' = session
            /\ bot' = bot
            /\ last' = [LastNone EXCEPT !.kind = "stopgame", !.ok = FALSE]
       ELSE /\ session' = [session EXCEPT !.isActive = FALSE]
            /\ bot' = [bot EXCEPT !.stop = [pc |-> "saving",
                                            todo |-> FinalScores(session)]]
            /\ last' = [LastNone EXCEPT !.kind = "stopgame"]
    /\ UNCHANGED <<calls, obs, scheduler, dirs, files, disk, backups, snaps, clock,
                   procs, issued, acked, ackedSince, ncompact, appended, made>>

\* The loop of that endGame: await updatePlayerStats(...) for the next player.
StopGameUpdate ==
    /\ bot.stop.pc = "saving" /\ bot.stop.todo # <<>>
    /\ procs[2].kind = "idle"
    /\ LET player == Head(bot.stop.todo)
       IN  /\ procs' = [procs EXCEPT ![2] =
                           [Idle EXCEPT !.kind = "updatePlayerStats", !.pc = "load",
                                        !.log = Datasets.players, !.key = player.userId,
                                        !.value = [score |-> player.score,
                                                   isWinner |-> player.isWinner]]]
           /\ calls' = Recorded(player)
    /\ bot' = [bot EXCEPT !.stop.todo = Tail(@)]
    /\ last' = LastNone
    /\ UNCHANGED <<session, obs, scheduler, dirs, files, disk, backups, snaps, clock,
                   issued, acked, ackedSince, ncompact, appended, made>>

\* The end of that endGame: this.activeSessions.delete(channelId), of
\* whichever session the channel has; an endGame of endRound that is saving
\* goes on.
StopGameDelete ==
    /\ bot.stop.pc = "saving" /\ bot.stop.todo = <<>>
    /\ procs[2].kind = "idle"
    /\ session' = [NoSession EXCEPT !.started = session.started,
                                    !.pc = IF session.pc = "saving" THEN "saving"
                                           ELSE "none",
                                    !.todo = session.todo]
    /\ bot' = [bot EXCEPT !.stop = NoEnding]
    /\ last' = [LastNone EXCEPT !.kind = "stopgame", !.outcome = "deleted"]
    /\ UNCHANGED <<calls, obs, scheduler, dirs, files, disk, backups, snaps, clock,
                   procs, issued, acked, ackedSince, ncompact, appended, made>>

\* The timer of the start command, or the end of a post-round delay, runs
\* displayRound(channel, channelId): without session it returns; reading a
\* round past the last one throws; else the round is sent and its timer set.
Displayed(t) ==
    IF session.exists /\ session.currentRound < session.totalRounds
    THEN (bot.timers \ {t}) \cup {Timer("round", session.started)}
    ELSE bot.timers \ {t}

DisplayRound(t) ==
    /\ t \in bot.timers /\ t.kind = "display"
    /\ bot' = [bot EXCEPT !.timers = Displayed(t)]
    /\ session' = session
    /\ last' = [LastNone EXCEPT !.kind = "displayRound", !.of = t.of,
                                !.ok = session.exists]
    /\ UNCHANGED <<calls, obs, scheduler, dirs, files, disk, backups, snaps, clock,
                   procs, issued, acked, ackedSince, ncompact, appended, made>>

\* A round timer runs endRound(channel, channelId, message), up to its
\* delay: without session, or with one that is not active, it returns; else
\* the buttons are disabled, the answer and the scores are shown, and the
\* delay begins.
EndRound(t) ==
    /\ t \in bot.timers /\ t.kind = "round"
    /\ IF session.exists /\ session.isActive
               /\ session.currentRound < session.totalRounds
       THEN /\ bot' = [bot EXCEPT !.timers = (@ \ {t}) \cup {Timer("delay", t.of)}]
            /\ last' = [LastNone EXCEPT !.kind = "endRound", !.of = t.of,
                                        !.idx = session.currentRound]
       ELSE /\ bot' = [bot EXCEPT !.timers = @ \ {t}]
            /\ last' = [LastNone EXCEPT !.kind = "endRound", !.of = t.of,
                                        !.ok = FALSE]
    /\ session' = session
    /\ UNCHANGED <<calls, obs, scheduler, dirs, files, disk, backups, snaps, clock,
                   procs, issued, acked, ackedSince, ncompact, appended, made>>

\* The delay of endRound is over: nextRound(channelId), then endGame up to
\* its first await when the game is over, and displayRound when it is not.
\* An endGame from endRound while another one is saving is left out.
AfterDelay(t) ==
    /\ t \in bot.timers /\ t.kind = "delay"
    /\ IF ~session.exists
       THEN /\ session' = session
            /\ bot' = [bot EXCEPT !.timers = @ \ {t}]
            /\ last' = [LastNone EXCEPT !.kind = "nextRound", !.of = t.of,
                                        !.ok = FALSE]
       ELSE IF session.currentRound + 1 >= session.totalRounds
       THEN /\ session.pc = "playing"
            /\ session' = [session EXCEPT !.currentRound = @ + 1,
                                          !.isActive = FALSE, !.pc = "saving",
                                          !.todo = FinalScores(session)]
            /\ bot' = [bot EXCEPT !.timers = @ \ {t}]
            /\ last' = [LastNone EXCEPT !.kind = "nextRound", !.of = t.of,
                                        !.outcome = "gameOver"]
       ELSE /\ session' = [session EXCEPT !.currentRound = @ + 1]
            /\ bot' = [bot EXCEPT !.timers =
                           (@ \ {t}) \cup {Timer("round", session.started)}]
            /\ last' = [LastNone EXCEPT !.kind = "nextRound", !.of = t.of,
                                        !.outcome = "round"]
    /\ UNCHANGED <<calls, obs, scheduler, dirs, files, disk, backups, snaps, clock,
                   procs, issued, acked, ackedSince, ncompact, appended, made>>

---------------------------------------------------------------------------
(* The environment *)

\* Date.now() moves on.
Tick ==
    /\ clock < MaxClock
    /\ clock' = clock + 1
    /\ UNCHANGED <<bot, calls, obs, session, scheduler, dirs, files, disk, backups, snaps, procs, issued, acked,
                   ackedSince, ncompact, appended, made, last>>

\* The process dies and is started again: the calls in flight are gone, the
\* files are as the operating system has them.  last keeps the facade write
\* that was cut short while persisting, if there was one.
Restart ==
    /\ procs' = [p \in ProcIds |-> Idle]
    /\ last' = IF \E p \in ProcIds : Persisting(p)
               THEN LET p == CHOOSE q \in ProcIds : Persisting(q)
                    IN  [LastNone EXCEPT !.kind = "restart", !.log = procs[p].log,
                                         !.key = procs[p].key, !.value = procs[p].value]
               ELSE [LastNone EXCEPT !.kind = "restart"]
    /\ scheduler' = SchedulerInit
    /\ UNCHANGED <<bot, calls, obs, session, dirs, files, disk, backups, snaps, clock, issued, acked,
                   ackedSince, ncompact, appended, made>>

\* The operating system writes the log file back to the disk.
Writeback(name) ==
    /\ disk[name] # files[name]
    /\ disk' = [disk EXCEPT ![name] = files[name]]
    /\ UNCHANGED <<bot, calls, obs, session, scheduler, dirs, files, backups, snaps, clock, procs, issued, acked,
                   ackedSince, ncompact, appended, made, last>>

\* The machine loses power: what was not written back is lost, and so are
\* the calls in flight.
PowerLoss ==
    /\ files' = disk
    /\ procs' = [p \in ProcIds |-> Idle]
    /\ last' = [LastNone EXCEPT !.kind = "powerloss"]
    /\ scheduler' = SchedulerInit
    /\ UNCHANGED <<bot, calls, obs, session, dirs, disk, backups, snaps, clock, issued, acked, ackedSince,
                   ncompact, appended, made>>

\* The snapshot file of a dataset is deleted (from outside the program).
DeleteSnapshot(dataset) ==
    /\ snaps[dataset].exists
    /\ Quiet
    /\ snaps' = [snaps EXCEPT ![dataset] = NoSnap]
    /\ last' = LastNone
    /\ UNCHANGED <<bot, calls, obs, session, scheduler, dirs, files, disk, backups, clock, procs, issued, acked,
                   ackedSince, ncompact, appended, made>>

---------------------------------------------------------------------------
(* Initial states *)

\* A fresh installation: no data directory, no file.
Init ==
    /\ dirs = [data |-> FALSE, logs |-> FALSE]
    /\ files = [n \in LogNames |-> NoFile]
    /\ disk = [n \in LogNames |-> NoFile]
    /\ backups = [n \in LogNames |-> EmptyMap]
    /\ snaps = [n \in LogNames |-> NoSnap]
    /\ clock = 0
    /\ procs = [p \in ProcIds |-> Idle]
    /\ issued = [n \in LogNames |-> <<>>]
    /\ acked = [n \in LogNames |-> {}]
    /\ ackedSince = [n \in LogNames |-> {}]
    /\ ncompact = [n \in LogNames |-> 0]
    /\ appended = [n \in LogNames |-> FALSE]
    /\ made = [n \in LogNames |-> <<>>]
    /\ last = LastNone
    /\ scheduler = SchedulerInit
    /\ calls = NoCalls
    /\ obs = NoObs
    /\ session = NoSession
    /\ bot = NoBot

---------------------------------------------------------------------------
(* Spec: one log, one call at a time, the process restarting at any moment *)

\* The entries the callers append.
Entries == {SetEntry("u1", [score |-> 100]), DeleteEntry("u1")}

Next ==
    \/ \E e \in Entries : Quiet /\ AppendCall(1, "players", e)
    \/ Quiet /\ CompactCall(1, "players")
    \/ EnsureDirectories(1)
    \/ AppendFile(1)
    \/ CompactRead(1)
    \/ CompactCopy(1)
    \/ CompactTruncate(1)
    \/ CompactWrite(1)
    \/ CompactReaddir(1)
    \/ Restart

Spec == Init /\ [][Next]_vars

---------------------------------------------------------------------------
(* SpecReplay: compaction and replay of any log content *)

States == UNION {[D -> Values] : D \in SUBSET {"u1", "u2"}}

\* Whole-state payloads and checkpoint states a log may hold.
Payloads == {("u1" :> [score |-> 150]), ("u1" :> [score |-> 100] @@ "u2" :> [score |-> 100])}

ReplayEntries ==
    {SetEntry(k, v) : k \in Keys, v \in Values}
        \cup {DeleteEntry(k) : k \in Keys}
        \cup {SetDataEntry(d) : d \in Payloads}
        \cup {CheckpointEntry(d) : d \in Payloads \cup {EmptyMap}}

SeqsUpTo(S, n) == UNION {[1..k -> S] : k \in 0..n}

InitReplay ==
    /\ dirs = [data |-> TRUE, logs |-> TRUE]
    /\ \E es \in SeqsUpTo(ReplayEntries, MaxInitLen) :
          files = [n \in LogNames |->
                      IF n = "players" /\ es # <<>>
                      THEN FileOf([i \in DOMAIN es |-> Stringify(es[i])])
                      ELSE NoFile]
    /\ disk = [n \in LogNames |-> NoFile]
    /\ backups = [n \in LogNames |-> EmptyMap]
    /\ snaps = [n \in LogNames |-> NoSnap]
    /\ clock = 0
    /\ procs = [p \in ProcIds |-> Idle]
    /\ issued = [n \in LogNames |-> <<>>]
    /\ acked = [n \in LogNames |-> {}]
    /\ ackedSince = [n \in LogNames |-> {}]
    /\ ncompact = [n \in LogNames |-> 0]
    /\ appended = [n \in LogNames |-> FALSE]
    /\ made = [n \in LogNames |-> <<>>]
    /\ last = LastNone
    /\ scheduler = SchedulerInit
    /\ calls = NoCalls
    /\ obs = NoObs
    /\ session = NoSession
    /\ bot = NoBot

NextReplay ==
    \/ Quiet /\ CompactCall(1, "players")
    \/ EnsureDirectories(1)
    \/ CompactRead(1)
    \/ CompactCopy(1)
    \/ CompactTruncate(1)
    \/ CompactWrite(1)
    \/ CompactReaddir(1)

SpecReplay == InitReplay /\ [][NextReplay]_vars

---------------------------------------------------------------------------
(* SpecRead: reading and replaying a log of any content, corrupt ones too *)

\* The lines a log may hold: entries, lines that do not parse, empty lines.
ReadLines == {Stringify(e) : e \in ReplayEntries} \cup {Fragment, Blank}

InitRead ==
    /\ dirs = [data |-> TRUE, logs |-> TRUE]
    /\ \E ls \in SeqsUpTo(ReadLines, MaxInitLen) :
          files = [n \in LogNames |->
                      IF n = "players" /\ ls # <<>> THEN FileOf(ls) ELSE NoFile]
    /\ disk = [n \in LogNames |-> NoFile]
    /\ backups = [n \in LogNames |-> EmptyMap]
    /\ snaps = [n \in LogNames |-> NoSnap]
    /\ clock = 0
    /\ procs = [p \in ProcIds |-> Idle]
    /\ issued = [n \in LogNames |-> <<>>]
    /\ acked = [n \in LogNames |-> {}]
    /\ ackedSince = [n \in LogNames |-> {}]
    /\ ncompact = [n \in LogNames |-> 0]
    /\ appended = [n \in LogNames |-> FALSE]
    /\ made = [n \in LogNames |-> <<>>]
    /\ last = LastNone
    /\ scheduler = SchedulerInit
    /\ calls = NoCalls
    /\ obs = NoObs
    /\ session = NoSession
    /\ bot = NoBot

NextRead ==
    \/ Quiet /\ ReadCall(1, "players")
    \/ ReadFile(1)
    \/ Quiet /\ RebuildCall(1, "players")
    \/ RebuildRead(1)

SpecRead == InitRead /\ [][NextRead]_vars

---------------------------------------------------------------------------
(* SpecReads: every read, on datasets that exist and on ones that do not *)

NextReads ==
    \/ \E n \in LogNames, e \in Entries : Quiet /\ AppendCall(1, n, e)
    \/ EnsureDirectories(1)
    \/ AppendFile(1)
    \/ \E c \in Channels : Quiet /\ SaveCall(1, c, [round |-> 1])
    \/ FacadeLoad(1)
    \/ EnsureDataDir(1)
    \/ SnapTruncate(1)
    \/ SnapWrite(1)
    \/ \E n \in LogNames : Quiet /\ ReadCall(1, n)
    \/ ReadFile(1)
    \/ \E n \in LogNames : Quiet /\ RebuildCall(1, n)
    \/ RebuildRead(1)
    \/ \E n \in LogNames : GetLogSize(n)
    \/ \E d \in LogNames : FacadeRead(d)
    \/ \E c \in Channels : LoadGameState(c)

SpecReads == Init /\ [][NextReads]_vars

---------------------------------------------------------------------------
(* SpecSched: the scheduler, started and stopped, its timer firing at any *)
(* moment, on logs below, at and above the threshold                      *)

\* A log of n Set lines of half a MiB each.
BigLog(n) ==
    IF n = 0 THEN NoFile
    ELSE FileOf([i \in 1..n |-> Stringify(SetEntry("u1", BigValue))])

InitSched ==
    /\ dirs = [data |-> TRUE, logs |-> TRUE]
    /\ \E n \in 0..MaxInitLen, m \in {0, 2} :
          files = [players |-> BigLog(n), game_state |-> BigLog(m)]
    /\ disk = [n \in LogNames |-> NoFile]
    /\ backups = [n \in LogNames |-> EmptyMap]
    /\ snaps = [n \in LogNames |-> NoSnap]
    /\ clock = 0
    /\ procs = [p \in ProcIds |-> Idle]
    /\ issued = [n \in LogNames |-> <<>>]
    /\ acked = [n \in LogNames |-> {}]
    /\ ackedSince = [n \in LogNames |-> {}]
    /\ ncompact = [n \in LogNames |-> 0]
    /\ appended = [n \in LogNames |-> FALSE]
    /\ made = [n \in LogNames |-> <<>>]
    /\ last = LastNone
    /\ scheduler = SchedulerInit
    /\ calls = NoCalls
    /\ obs = NoObs
    /\ session = NoSession
    /\ bot = NoBot

\* The steps of the tick callback in slot t, compactLog's among them.
TickStep(t) ==
    \/ TickStat(t)
    \/ EnsureDirectories(t)
    \/ CompactRead(t)
    \/ CompactCopy(t)
    \/ CompactTruncate(t)
    \/ CompactWrite(t)
    \/ CompactReaddir(t)
    \/ TickResume(t)

NextSched ==
    \/ \E names \in NameLists : SchedStart(names)
    \/ SchedStop
    \/ \E id \in 1..MaxTimers, t \in ProcIds : TickFire(id, t)
    \/ \E t \in ProcIds : TickStep(t)

SpecSched == InitSched /\ [][NextSched]_vars

---------------------------------------------------------------------------
(* SpecTick: the scheduler with an interval longer than a tick takes, so *)
(* that the timer fires only when the tick before it has ended           *)

NoTickInProgress == \A t \in ProcIds : ~scheduler.ticks[t].active

NextTick ==
    \/ \E names \in NameLists : SchedStart(names)
    \/ SchedStop
    \/ \E id \in 1..MaxTimers : NoTickInProgress /\ TickFire(id, 1)
    \/ TickStep(1)

SpecTick == InitSched /\ [][NextTick]_vars

\* The event loop runs every callback whose I/O has completed.
SpecTickFair == SpecTick /\ WF_vars(TickStep(1))

---------------------------------------------------------------------------
(* SpecIsolation: ticks over logs whose size check or compaction fails *)

\* A log above the threshold whose last line does not parse.
CorruptLog ==
    FileOf([i \in 1..(MaxInitLen - 1) |-> Stringify(SetEntry("u1", BigValue))]
               \o <<Fragment>>)

InitIsolation ==
    /\ dirs = [data |-> TRUE, logs |-> TRUE]
    /\ \E f \in {BigLog(MaxInitLen), CorruptLog},
          g \in {NoFile, BigLog(MaxInitLen), CorruptLog} :
          files = [players |-> f, game_state |-> g]
    /\ disk = [n \in LogNames |-> NoFile]
    /\ backups = [n \in LogNames |-> EmptyMap]
    /\ snaps = [n \in LogNames |-> NoSnap]
    /\ clock = 0
    /\ procs = [p \in ProcIds |-> Idle]
    /\ issued = [n \in LogNames |-> <<>>]
    /\ acked = [n \in LogNames |-> {}]
    /\ ackedSince = [n \in LogNames |-> {}]
    /\ ncompact = [n \in LogNames |-> 0]
    /\ appended = [n \in LogNames |-> FALSE]
    /\ made = [n \in LogNames |-> <<>>]
    /\ last = LastNone
    /\ scheduler = SchedulerInit
    /\ calls = NoCalls
    /\ obs = NoObs
    /\ session = NoSession
    /\ bot = NoBot

\* The steps of the tick callback in slot t, the failing ones among them.
TickStepOrFail(t) ==
    \/ TickStep(t)
    \/ TickStatFails(t)
    \/ CompactFails(t)

\* The interval has elapsed and no callback is in progress.
TimerFires == \E id \in 1..MaxTimers : NoTickInProgress /\ TickFire(id, 1)

NextIsolation ==
    \/ \E names \in NameLists : SchedStart(names)
    \/ TimerFires
    \/ TickStep(1)
    \/ TickStatFails(1)
    \/ CompactFails(1)

SpecIsolation == InitIsolation /\ [][NextIsolation]_vars

\* The event loop runs every callback whose I/O has completed, by success
\* or by failure, and an armed interval timer fires again and again.
SpecIsolationFair ==
    SpecIsolation /\ WF_vars(TickStepOrFail(1)) /\ WF_vars(TimerFires)

---------------------------------------------------------------------------
(* SpecCrash: appends and compactions of one log, one call at a time,   *)
(* where a file system call of compactLog may fail and the process may  *)
(* die at any step                                                      *)

NextCrash ==
    \/ Quiet /\ AppendCall(1, "players", SetEntry("u1", [score |-> 100]))
    \/ Quiet /\ CompactCall(1, "players")
    \/ EnsureDirectories(1)
    \/ AppendFile(1)
    \/ CompactRead(1)
    \/ CompactCopy(1)
    \/ CompactTruncate(1)
    \/ CompactWrite(1)
    \/ CompactReaddir(1)
    \/ CompactFails(1)
    \/ Restart

SpecCrash == Init /\ [][NextCrash]_vars

---------------------------------------------------------------------------
(* SpecBackups: repeated compaction of one log while the clock runs *)

NextBackups ==
    \/ Quiet /\ AppendCall(1, "players", SetEntry("u1", [score |-> 100]))
    \/ Quiet /\ CompactCall(1, "players")
    \/ EnsureDirectories(1)
    \/ AppendFile(1)
    \/ CompactRead(1)
    \/ CompactCopy(1)
    \/ CompactTruncate(1)
    \/ CompactWrite(1)
    \/ CompactReaddir(1)
    \/ CompactUnlink(1)
    \/ Tick

SpecBackups == Init /\ [][NextBackups]_vars

---------------------------------------------------------------------------
(* SpecConc: append calls issued without awaiting one another *)

NextConc ==
    \/ \E p \in ProcIds, e \in Entries : AppendCall(p, "players", e)
    \/ \E p \in ProcIds : EnsureDirectories(p)
    \/ \E p \in ProcIds : AppendFile(p)
    \/ Restart

SpecConc == Init /\ [][NextConc]_vars

---------------------------------------------------------------------------
(* SpecPower: appends, with the machine losing power at any moment *)

NextPower ==
    \/ \E e \in Entries : Quiet /\ AppendCall(1, "players", e)
    \/ EnsureDirectories(1)
    \/ AppendFile(1)
    \/ Writeback("players")
    \/ PowerLoss

SpecPower == Init /\ [][NextPower]_vars

---------------------------------------------------------------------------
(* SpecStats: updatePlayerStats calls for two users, each awaited *)

StatUsers == {"u1", "u2"}

\* Scores of a game: 0 and above.
StatScores == {0, 100, 150}

InitStats ==
    /\ dirs = [data |-> FALSE, logs |-> FALSE]
    /\ files = [n \in LogNames |-> NoFile]
    /\ disk = [n \in LogNames |-> NoFile]
    /\ backups = [n \in LogNames |-> EmptyMap]
    /\ snaps = [n \in LogNames |-> NoSnap]
    /\ clock = 0
    /\ procs = [p \in ProcIds |-> Idle]
    /\ issued = [n \in LogNames |-> <<>>]
    /\ acked = [n \in LogNames |-> {}]
    /\ ackedSince = [n \in LogNames |-> {}]
    /\ ncompact = [n \in LogNames |-> 0]
    /\ appended = [n \in LogNames |-> FALSE]
    /\ made = [n \in LogNames |-> <<>>]
    /\ last = LastNone
    /\ scheduler = SchedulerInit
    /\ calls = [NoCalls EXCEPT !.recording = TRUE]
    /\ obs = NoObs
    /\ session = NoSession
    /\ bot = NoBot

NextStats ==
    \/ \E u \in StatUsers, sc \in StatScores, w \in BOOLEAN :
          Quiet /\ UpdateCall(1, u, sc, w)
    \/ FacadeLoad(1)
    \/ EnsureDataDir(1)
    \/ SnapTruncate(1)
    \/ SnapWrite(1)
    \/ FacadeRead(Datasets.players)

SpecStats == InitStats /\ [][NextStats]_vars

---------------------------------------------------------------------------
(* SpecHistory: updatePlayerStats calls, each awaited, for a player whose *)
(* history is one game short of its cap, or at it                        *)

\* The games the player has played before: scores and wins in a pattern that
\* tells every game from the one before it.
PriorCalls(n) ==
    [i \in 1..n |-> [score |-> IF i % 2 = 0 THEN 100 ELSE 0, isWinner |-> i % 3 = 0]]

\* The stats of user u after those n games, n > 1: every second one scored
\* 100 and every third one was won.
PriorStats(u, n) ==
    LET total == 100 * Cardinality({i \in 1..n : i % 2 = 0})
    IN  [userId |-> u, username |-> "name", totalGames |-> n,
         totalWins |-> Cardinality({i \in 1..n : i % 3 = 0}),
         totalScore |-> total,
         averageScore |-> RoundDiv(total, n),
         bestScore |-> 100,
         gamesHistory |-> LastOf(PriorCalls(n), HistoryCap)]

InitHistory ==
    /\ dirs = [data |-> TRUE, logs |-> FALSE]
    /\ files = [n \in LogNames |-> NoFile]
    /\ disk = [n \in LogNames |-> NoFile]
    /\ backups = [n \in LogNames |-> EmptyMap]
    /\ \E n \in {HistoryCap - 1, HistoryCap} :
          /\ snaps = [d \in LogNames |->
                         IF d = Datasets.players
                         THEN [exists |-> TRUE, parses |-> TRUE,
                               data |-> ("u1" :> PriorStats("u1", n))]
                         ELSE NoSnap]
          /\ calls = [NoCalls EXCEPT !.recording = TRUE,
                                     !.by = ("u1" :> PriorCalls(n))]
    /\ clock = 0
    /\ procs = [p \in ProcIds |-> Idle]
    /\ issued = [n \in LogNames |-> <<>>]
    /\ acked = [n \in LogNames |-> {}]
    /\ ackedSince = [n \in LogNames |-> {}]
    /\ ncompact = [n \in LogNames |-> 0]
    /\ appended = [n \in LogNames |-> FALSE]
    /\ made = [n \in LogNames |-> <<>>]
    /\ last = LastNone
    /\ scheduler = SchedulerInit
    /\ obs = NoObs
    /\ session = NoSession
    /\ bot = NoBot

NextHistory ==
    \/ \E sc \in StatScores, w \in BOOLEAN : Quiet /\ UpdateCall(1, "u1", sc, w)
    \/ FacadeLoad(1)
    \/ EnsureDataDir(1)
    \/ SnapTruncate(1)
    \/ SnapWrite(1)
    \/ FacadeRead(Datasets.players)

SpecHistory == InitHistory /\ [][NextHistory]_vars

---------------------------------------------------------------------------
(* SpecRace: updatePlayerStats calls issued without awaiting one another *)

\* the calls issued for user u
CallsOf(u) == IF u \in DOMAIN calls.by THEN calls.by[u] ELSE <<>>

NextRace ==
    \/ \E p \in ProcIds, u \in StatUsers, sc \in StatScores :
          Len(CallsOf(u)) < MaxGames /\ UpdateCall(p, u, sc, FALSE)
    \/ \E p \in ProcIds : FacadeLoad(p)
    \/ \E p \in ProcIds : EnsureDataDir(p)
    \/ \E p \in ProcIds : SnapTruncate(p)
    \/ \E p \in ProcIds : SnapWrite(p)

SpecRace == InitStats /\ [][NextRace]_vars

---------------------------------------------------------------------------
(* SpecWrites: facade writes and compactions, one call at a time, none *)
(* failing                                                             *)

NextWrites ==
    \/ \E u \in Users, sc \in Scores, w \in BOOLEAN : Quiet /\ UpdateCall(1, u, sc, w)
    \/ \E c \in Channels, st \in GameStates : Quiet /\ SaveCall(1, c, st)
    \/ \E c \in Channels : Quiet /\ ClearCall(1, c)
    \/ FacadeLoad(1)
    \/ EnsureDataDir(1)
    \/ SnapTruncate(1)
    \/ SnapWrite(1)
    \/ \E n \in LogNames : Quiet /\ CompactCall(1, n)
    \/ EnsureDirectories(1)
    \/ CompactRead(1)
    \/ CompactCopy(1)
    \/ CompactTruncate(1)
    \/ CompactWrite(1)
    \/ CompactReaddir(1)

SpecWrites == Init /\ [][NextWrites]_vars

---------------------------------------------------------------------------
(* SpecLazy: every operation of the log module, one call at a time, on a *)
(* name that is appended to and on one that never is                     *)

NextLazy ==
    \/ Quiet /\ AppendCall(1, "players", SetEntry("u1", [score |-> 100]))
    \/ EnsureDirectories(1)
    \/ AppendFile(1)
    \/ \E n \in LogNames : Quiet /\ ReadCall(1, n)
    \/ ReadFile(1)
    \/ \E n \in LogNames : Quiet /\ RebuildCall(1, n)
    \/ RebuildRead(1)
    \/ \E n \in LogNames : GetLogSize(n)
    \/ \E n \in LogNames : Quiet /\ CompactCall(1, n)
    \/ CompactRead(1)
    \/ CompactCopy(1)
    \/ CompactTruncate(1)
    \/ CompactWrite(1)
    \/ CompactReaddir(1)
    \/ \E n \in LogNames : NeedsCompactionOf(n)

SpecLazy == Init /\ [][NextLazy]_vars

---------------------------------------------------------------------------
(* SpecGame: games of one channel, answers arriving at any moment *)

NextGame ==
    \/ \E rounds \in RoundCounts : StartGame(rounds)
    \/ \E u \in GameUsers, l \in Labels : ProcessAnswer(u, l)
    \/ NextRound
    \/ EndGameCall
    \/ EndGameUpdate
    \/ FacadeLoad(1)
    \/ EnsureDataDir(1)
    \/ SnapTruncate(1)
    \/ SnapWrite(1)
    \/ EndGameDelete

SpecGame == Init /\ [][NextGame]_vars

---------------------------------------------------------------------------
(* SpecStart: startGame at any moment of the games of one channel, with *)
(* rounds the tokens suffice for and with more                          *)

StartRounds == RoundCounts \cup {TokenCount + 1}

NextStart ==
    \/ \E rounds \in StartRounds : StartGame(rounds)
    \/ \E u \in GameUsers : ProcessAnswer(u, "1")
    \/ NextRound
    \/ EndGameCall
    \/ EndGameUpdate
    \/ FacadeLoad(1)
    \/ EnsureDataDir(1)
    \/ SnapTruncate(1)
    \/ SnapWrite(1)
    \/ EndGameDelete

SpecStart == Init /\ [][NextStart]_vars

---------------------------------------------------------------------------
(* SpecStop: games of one channel that end by their last round, by     *)
(* /stopgame at any moment, or by both                                *)

\* nextRound has returned gameOver: endRound calls endGame.
GameOver == session.exists /\ session.currentRound >= session.totalRounds

NextStop ==
    \/ \E rounds \in RoundCounts : StartGame(rounds)
    \/ \E u \in GameUsers : ProcessAnswer(u, "1")
    \/ NextRound
    \/ GameOver /\ EndGameCall
    \/ EndGameUpdate
    \/ EndGameDelete
    \/ StopGameCall
    \/ StopGameUpdate
    \/ StopGameDelete
    \/ \E p \in ProcIds : FacadeLoad(p)
    \/ \E p \in ProcIds : EnsureDataDir(p)
    \/ \E p \in ProcIds : SnapTruncate(p)
    \/ \E p \in ProcIds : SnapWrite(p)

SpecStop == InitStats /\ [][NextStop]_vars

---------------------------------------------------------------------------
(* SpecTimers: games of one channel run by the timers of index.js, and *)
(* stopped by /stopgame at any moment                                 *)

InitTimers ==
    /\ dirs = [data |-> FALSE, logs |-> FALSE]
    /\ files = [n \in LogNames |-> NoFile]
    /\ disk = [n \in LogNames |-> NoFile]
    /\ backups = [n \in LogNames |-> EmptyMap]
    /\ snaps = [n \in LogNames |-> NoSnap]
    /\ clock = 0
    /\ procs = [p \in ProcIds |-> Idle]
    /\ issued = [n \in LogNames |-> <<>>]
    /\ acked = [n \in LogNames |-> {}]
    /\ ackedSince = [n \in LogNames |-> {}]
    /\ ncompact = [n \in LogNames |-> 0]
    /\ appended = [n \in LogNames |-> FALSE]
    /\ made = [n \in LogNames |-> <<>>]
    /\ last = LastNone
    /\ scheduler = SchedulerInit
    /\ calls = NoCalls
    /\ obs = NoObs
    /\ session = NoSession
    /\ bot = [NoBot EXCEPT !.armed = TRUE, !.sessions = MaxSessions + 1]

NextTimers ==
    \/ \E rounds \in RoundCounts : StartGame(rounds)
    \/ \E t \in bot.timers : DisplayRound(t)
    \/ ProcessAnswer("u1", "1")
    \/ \E t \in bot.timers : EndRound(t)
    \/ \E t \in bot.timers : AfterDelay(t)
    \/ EndGameUpdate
    \/ EndGameDelete
    \/ StopGameCall
    \/ StopGameUpdate
    \/ StopGameDelete
    \/ \E p \in ProcIds : FacadeLoad(p)
    \/ \E p \in ProcIds : EnsureDataDir(p)
    \/ \E p \in ProcIds : SnapTruncate(p)
    \/ \E p \in ProcIds : SnapWrite(p)

SpecTimers == InitTimers /\ [][NextTimers]_vars

---------------------------------------------------------------------------
(* SpecAppendOnly: one caller appending to a log and compacting it while *)
(* another caller reads the log at any moment                            *)

InitAppendOnly ==
    /\ dirs = [data |-> FALSE, logs |-> FALSE]
    /\ files = [n \in LogNames |-> NoFile]
    /\ disk = [n \in LogNames |-> NoFile]
    /\ backups = [n \in LogNames |-> EmptyMap]
    /\ snaps = [n \in LogNames |-> NoSnap]
    /\ clock = 0
    /\ procs = [p \in ProcIds |-> Idle]
    /\ issued = [n \in LogNames |-> <<>>]
    /\ acked = [n \in LogNames |-> {}]
    /\ ackedSince = [n \in LogNames |-> {}]
    /\ ncompact = [n \in LogNames |-> 0]
    /\ appended = [n \in LogNames |-> FALSE]
    /\ made = [n \in LogNames |-> <<>>]
    /\ last = LastNone
    /\ scheduler = SchedulerInit
    /\ calls = NoCalls
    /\ obs = [n \in LogNames |-> [NoObservation EXCEPT !.kept = TRUE]]
    /\ session = NoSession
    /\ bot = NoBot

NextAppendOnly ==
    \/ \E e \in Entries : AppendCall(1, "players", e)
    \/ procs[1].kind = "idle" /\ CompactCall(1, "players")
    \/ EnsureDirectories(1)
    \/ AppendFile(1)
    \/ CompactRead(1)
    \/ CompactCopy(1)
    \/ CompactTruncate(1)
    \/ CompactWrite(1)
    \/ CompactReaddir(1)
    \/ ReadCall(2, "players")
    \/ ReadFile(2)

SpecAppendOnly == InitAppendOnly /\ [][NextAppendOnly]_vars

---------------------------------------------------------------------------
(* SpecOverlap: a compaction of a log while another caller appends to it *)

NextOverlap ==
    \/ \E e \in Entries : AppendCall(2, "players", e)
    \/ CompactCall(1, "players")
    \/ \E p \in {1, 2} : EnsureDirectories(p)
    \/ AppendFile(2)
    \/ CompactRead(1)
    \/ CompactCopy(1)
    \/ CompactTruncate(1)
    \/ CompactWrite(1)
    \/ CompactReaddir(1)

SpecOverlap == Init /\ [][NextOverlap]_vars

---------------------------------------------------------------------------
(* SpecFailing: compactions of one log, one call at a time, while the   *)
(* clock runs; a call may fail at any of its file system calls          *)

NextFailing ==
    \/ Quiet /\ CompactCall(1, "players")
    \/ EnsureDirectories(1)
    \/ CompactRead(1)
    \/ CompactCopy(1)
    \/ CompactTruncate(1)
    \/ CompactWrite(1)
    \/ CompactReaddir(1)
    \/ CompactUnlink(1)
    \/ CompactFails(1)
    \/ Tick

SpecFailing == Init /\ [][NextFailing]_vars

---------------------------------------------------------------------------
(* SpecFacade: the facade, one call at a time, beside direct appends *)

NextFacade ==
    \/ \E u \in Users, sc \in Scores, w \in BOOLEAN : Quiet /\ UpdateCall(1, u, sc, w)
    \/ \E c \in Channels, st \in GameStates : Quiet /\ SaveCall(1, c, st)
    \/ \E c \in Channels : Quiet /\ ClearCall(1, c)
    \/ FacadeLoad(1)
    \/ EnsureDataDir(1)
    \/ SnapTruncate(1)
    \/ SnapWrite(1)
    \/ \E d \in LogNames : FacadeRead(d)
    \/ \E d \in LogNames : DeleteSnapshot(d)
    \/ \E d \in LogNames : Quiet /\ AppendCall(1, d, SetEntry("u1", [score |-> 100]))
    \/ EnsureDirectories(1)
    \/ AppendFile(1)
    \/ Restart

SpecFacade == Init /\ [][NextFacade]_vars

---------------------------------------------------------------------------
(* Claims *)

EntriesOf(n) == ReadLogEntries(files[n]).entries

\* The state compactLog's caller would have rebuilt right before the call.
StateBefore == Replay(EmptyMap, last.before)

Compacted == last.kind = "compact" /\ last.ok

\* entry changes what replay holds for key k
Touches(entry, k) ==
    \/ entry.op = OpType.SET /\ Truthy(entry.key) /\ entry.key = k
    \/ entry.op = OpType.SET /\ ~Truthy(entry.key) /\ k \in DOMAIN entry.data
    \/ entry.op = OpType.DELETE /\ entry.key = k
    \/ entry.op = OpType.CHECKPOINT /\ k \in DOMAIN entry.state

\* the last entry of es about key k is a Delete
DeletedLast(es, k) ==
    \E i \in DOMAIN es :
        /\ es[i].op = OpType.DELETE /\ es[i].key = k
        /\ \A j \in DOMAIN es : j > i => ~Touches(es[j], k)

\* C1 - Checkpoint transparency: right after compactLog has returned, the
\* state rebuilt from the log equals the state rebuilt from the content the
\* log had when compactLog was called, whatever that content was.
CheckpointTransparency ==
    Compacted => RebuildStateFromLog(files[last.log]) = StateBefore

CheckpointTransparencyWitness ==
    /\ Compacted
    /\ Len(last.before) >= 2
    /\ \E i \in DOMAIN last.before : last.before[i].op = OpType.DELETE
    /\ \E i \in DOMAIN last.before : last.before[i].op = OpType.CHECKPOINT
    /\ StateBefore # EmptyMap

\* C9 - Compaction result: after compactLog has returned the log reads as
\* exactly one entry, a CHECKPOINT, whose state is the state rebuilt from
\* the content before the compaction.
CompactionResult ==
    Compacted =>
        LET r == ReadLogEntries(files[last.log])
        IN  /\ r.ok
            /\ Len(r.entries) = 1
            /\ r.entries[1].op = OpType.CHECKPOINT
            /\ r.entries[1].state = StateBefore

CompactionResultWitness ==
    /\ Compacted
    /\ Len(last.before) = MaxInitLen
    /\ \A i \in DOMAIN last.before : last.before[i].op # OpType.CHECKPOINT
    /\ Cardinality(DOMAIN StateBefore) >= 2

\* C10 - Tombstone persistence: a key whose last entry in the log is a
\* Delete is absent from the rebuilt state, and it is still absent from the
\* state rebuilt after a compaction of that log.
TombstonePersistence ==
    /\ \A n \in LogNames, k \in Keys :
          DeletedLast(EntriesOf(n), k) => k \notin DOMAIN RebuildStateFromLog(files[n])
    /\ Compacted =>
          \A k \in Keys :
              DeletedLast(last.before, k) => k \notin DOMAIN RebuildStateFromLog(files[last.log])

\* Set(k, v), then Delete(k), then the compaction.
TombstonePersistenceWitness ==
    /\ Compacted
    /\ \E k \in Keys, v \in Values :
          last.before = <<SetEntry(k, v), DeleteEntry(k)>> /\ Truthy(k)

\* C2 - Monotonic durability as stated: every entry whose append has
\* returned is among the entries the log reads as, from then on.
MonotonicDurability ==
    \A n \in LogNames : acked[n] \subseteq Range(EntriesOf(n))

\* C2 as amended: every entry whose append has returned is among the entries
\* the log reads as, through further appends and restarts of the process,
\* until a compaction overwrites the log.
DurableUntilCompaction ==
    \A n \in LogNames : ackedSince[n] \subseteq Range(EntriesOf(n))

\* An entry appended after a compaction, read back after a restart.
DurableUntilCompactionWitness ==
    /\ last.kind = "restart"
    /\ ncompact["players"] >= 1
    /\ Len(EntriesOf("players")) >= 2
    /\ Cardinality(ackedSince["players"]) >= 1
    /\ acked["players"] # ackedSince["players"]

\* C8 - Backup bound: once four compactions of a log have completed, an
\* append having returned between any two of them, exactly three backup
\* files of the log exist, and they are the last three copies made.
BackupBound ==
    \A n \in LogNames :
        (Quiet /\ ncompact[n] >= KeepBackups + 1) =>
            /\ Cardinality(DOMAIN backups[n]) = KeepBackups
            /\ DOMAIN backups[n] = Range(made[n])

\* a is b with some of its elements left out
RECURSIVE IsSubSeq(_, _)
IsSubSeq(a, b) ==
    IF a = <<>> THEN TRUE
    ELSE IF b = <<>> THEN FALSE
    ELSE IF Head(a) = Head(b) THEN IsSubSeq(Tail(a), Tail(b))
    ELSE IsSubSeq(a, Tail(b))

\* C6 - Append ordering: the entries of a log are in the file in the order
\* in which their append calls were issued, however the pending calls
\* interleave.
AppendOrdering ==
    \A n \in LogNames : IsSubSeq(EntriesOf(n), issued[n])

\* C7 - Durable append: an entry whose append has returned is on persistent
\* storage, so that the log still holds it after the machine lost power.
DurableAppend ==
    last.kind = "powerloss" => \A n \in LogNames : acked[n] \subseteq Range(EntriesOf(n))

FacadeWrote ==
    last.kind \in {"updatePlayerStats", "saveGameState", "clearGameState"} /\ last.ok

\* C3 - Dual write order: when a facade write has returned, the last line of
\* the dataset's log is the Set or Delete entry of that write, and the state
\* rebuilt from the log holds the value written.
DualWriteOrder ==
    FacadeWrote =>
        LET es == EntriesOf(last.log)
            st == RebuildStateFromLog(files[last.log])
        IN  /\ es # <<>>
            /\ es[Len(es)] = IF last.kind = "clearGameState"
                             THEN DeleteEntry(last.key)
                             ELSE SetEntry(last.key, last.value)
            /\ last.kind # "clearGameState" =>
                  last.key \in DOMAIN st /\ st[last.key] = last.value

\* C4 - Read fallback: a facade read of a dataset whose snapshot is missing
\* or does not parse, while its log holds entries, succeeds and returns the
\* state rebuilt from the log.
ReadFallback ==
    (/\ last.kind \in {"loadPlayers", "getAllGameStates"}
     /\ ~snaps[last.log].exists \/ ~snaps[last.log].parses
     /\ EntriesOf(last.log) # <<>>)
        => last.ok /\ last.result = RebuildStateFromLog(files[last.log])

\* C5 - No data loss on crash: when the process died in a facade write that
\* had got past the point of its log append (it was persisting what it had
\* updated), the facade read of that dataset after the restart includes the
\* write.
NoDataLossOnCrash ==
    (last.kind = "restart" /\ last.key # "") =>
        LET r == ReadJSON(snaps[last.log], EmptyMap)
        IN  /\ r.ok
            /\ IF last.value = NoValue
               THEN last.key \notin DOMAIN r.value
               ELSE last.key \in DOMAIN r.value /\ r.value[last.key] = last.value

Rebuilt == last.kind = "rebuild" /\ last.ok

\* entry writes key k: a Set of k, or a whole-state Set or a Checkpoint whose
\* mapping holds k
Writes(entry, k) ==
    \/ entry.op = OpType.SET /\ entry.key = k /\ entry.value # NoValue
    \/ entry.op = OpType.SET /\ k \in DOMAIN entry.data
    \/ entry.op = OpType.CHECKPOINT /\ k \in DOMAIN entry.state

\* C11 - Last-write-wins: for every key k, when the log holds Set(k, v1) and
\* later Set(k, v2), no Delete(k) between or after them, and nothing writes k
\* after Set(k, v2), the state rebuildStateFromLog returns has v2 at k.
LastWriteWins ==
    Rebuilt =>
        LET es == last.before
        IN  \A k \in Keys, v1 \in Values, v2 \in Values :
                \A i \in DOMAIN es, j \in DOMAIN es :
                    (/\ i < j
                     /\ es[i] = SetEntry(k, v1)
                     /\ es[j] = SetEntry(k, v2)
                     /\ \A m \in DOMAIN es :
                           m > i => ~(es[m].op = OpType.DELETE /\ es[m].key = k)
                     /\ \A m \in DOMAIN es : m > j => ~Writes(es[m], k))
                        => k \in DOMAIN last.result /\ last.result[k] = v2

RECURSIVE FoldTail(_, _)
FoldTail(S, tail) ==
    IF tail = <<>> THEN S
    ELSE LET e == Head(tail)
         IN  FoldTail(IF e.op = OpType.SET THEN Put(S, e.key, e.value)
                      ELSE Remove(S, e.key),
                      Tail(tail))

\* a Set with a key that JavaScript takes as present, or a Delete
KeyedEntry(e) ==
    \/ e.op = OpType.SET /\ Truthy(e.key)
    \/ e.op = OpType.DELETE

ReadOrRebuilt == last.kind \in {"read", "rebuild"}

Missing(d) == ~files[d].exists /\ ~snaps[d].exists

\* C15 - Missing dataset is not an error: on a dataset that has no log and
\* no snapshot readLogEntries returns no entries, rebuildStateFromLog the
\* empty mapping, getLogSize 0, loadPlayers and getAllGameStates the empty
\* mapping, and loadGameState null; none of them fails.
MissingDatasetReads ==
    (last.kind # "none" /\ last.log \in LogNames /\ Missing(last.log)) =>
        /\ last.kind = "read" => last.ok /\ last.before = <<>>
        /\ last.kind = "rebuild" => last.ok /\ last.result = EmptyMap
        /\ last.kind = "getLogSize" => last.ok /\ last.size = 0
        /\ last.kind \in {"loadPlayers", "getAllGameStates"} =>
              last.ok /\ last.result = EmptyMap
        /\ last.kind = "loadGameState" => last.ok /\ last.value = Null

\* loadGameState on the missing game_state dataset while players exists.
MissingDatasetReadsWitness ==
    /\ last.kind = "loadGameState"
    /\ Missing(Datasets.game_state)
    /\ files[Datasets.players].exists

\* C16 - readLogEntries returns the entries appended to the log, one per
\* append that has returned, in the order of the appends and each as it was
\* appended; k appends to an empty log read as k entries.
ReadEntriesInOrder ==
    last.kind = "read" =>
        /\ last.ok
        /\ last.before = issued[last.log]
        /\ Len(last.before) = Cardinality(DOMAIN last.seen.lines)

\* Two different entries appended and read back.
ReadEntriesInOrderWitness ==
    /\ last.kind = "read"
    /\ Len(last.before) = MaxLogLen
    /\ last.before[1] # last.before[2]

\* the tick callback in slot t is inside its compactLog call
TickCompacting(t) ==
    /\ scheduler.ticks[t].active
    /\ scheduler.ticks[t].pc = "compacting"
    /\ procs[t].kind = "compact"

\* C17 - Scheduler-triggered compactions of one log never overlap: no two
\* tick callbacks are inside compactLog for the same log name at once.
NoOverlappingCompaction ==
    \A t \in ProcIds, u \in ProcIds :
        (t # u /\ TickCompacting(t) /\ TickCompacting(u)) => procs[t].log # procs[u].log

\* C18 - Scheduler start is idempotent while running: start() on a running
\* scheduler, with whatever list of log names, leaves isRunning, intervalId
\* and the armed timers with their log names as they were, and exactly one
\* timer is armed.
StartIdempotent ==
    (last.kind = "start" /\ last.was.isRunning) =>
        /\ Lifecycle(scheduler) = last.was
        /\ Cardinality(DOMAIN scheduler.timers) = 1

\* start() with another list of names on a scheduler that is running.
StartIdempotentWitness ==
    /\ last.kind = "start" /\ last.was.isRunning
    /\ scheduler.intervalId \in DOMAIN scheduler.timers
    /\ scheduler.timers[scheduler.intervalId] # last.names

\* C19 - Scheduler stop: a tick begins only while the scheduler is running
\* (none after stop() until start() is called again); stop() leaves the
\* ticks in progress and their compactLog calls as they are; and every tick
\* in progress, with its compaction, runs to its end.
SchedulerStop ==
    /\ [](last.kind = "tick" => last.ok)
    /\ [][SchedStop => (scheduler'.ticks = scheduler.ticks /\ procs' = procs)]_vars
    /\ \A t \in ProcIds :
          /\ scheduler.ticks[t].active ~> ~scheduler.ticks[t].active
          /\ TickCompacting(t) ~> (last.kind = "compact" \/ ~TickCompacting(t))

\* stop() was called while a tick was inside compactLog.
SchedulerStopWitness ==
    /\ last.kind = "stop" /\ last.was.isRunning
    /\ \E t \in ProcIds : TickCompacting(t) /\ procs[t].pc = "copy"

\* C20 - Scheduler tick rule: needsCompaction holds exactly when the size
\* of the log is above the threshold; a tick is inside compactLog only for
\* the name it is at, whose log was above the threshold; a log at or below
\* it, or missing, is left as it was; and a tick examines a name only while
\* it has no compaction of its own in progress.
TickRule ==
    /\ last.kind = "needsCompaction" =>
          /\ last.size = LogSize(last.seen)
          /\ last.needs <=> last.size > Threshold
          /\ (~last.needs /\ \A t \in ProcIds : ~(procs[t].kind = "compact" /\ procs[t].log = last.log))
                => files[last.log] = last.seen
    /\ \A t \in ProcIds :
          /\ TickCompacting(t) =>
                /\ procs[t].log = scheduler.ticks[t].names[scheduler.ticks[t].idx]
                /\ LinesSize([i \in DOMAIN procs[t].before |-> Stringify(procs[t].before[i])])
                      > Threshold
          /\ scheduler.ticks[t].pc = "stat" => procs[t].kind = "idle"
          /\ procs[t].kind = "compact" => TickCompacting(t)

\* A tick has compacted players and then found game_state at exactly the
\* threshold, which it leaves alone.
TickRuleWitness ==
    /\ last.kind = "needsCompaction" /\ ~last.needs
    /\ last.log = "game_state" /\ last.size = Threshold
    /\ DOMAIN backups["players"] # {}
    /\ ReadLogEntries(files["players"]).entries = <<CheckpointEntry("u1" :> BigValue)>>

\* the tick callback in slot t is at the i-th name of its list
TickAt(t, names, i) ==
    /\ scheduler.ticks[t].active
    /\ scheduler.ticks[t].names = names
    /\ scheduler.ticks[t].idx = i

\* the size check of the i-th name of the list has been made, or has failed
Examined(names, i) ==
    last.kind = "needsCompaction" /\ last.names = names /\ last.idx = i

\* the size check or the compaction of a log has just failed
TickFailure ==
    \/ last.kind = "needsCompaction" /\ ~last.ok
    \/ last.kind = "compact" /\ ~last.ok

\* C21 - Scheduler error isolation: a size check that fails during a tick
\* makes the callback go on with the next name (or end after the last one);
\* a compactLog call that ends, by return or by an exception, leaves the
\* callback in its loop; every name after the one a tick is at is examined
\* by that tick, whatever failed before; no step disarms a timer or clears
\* isRunning; and after a failure the timer fires again.
ErrorIsolation ==
    /\ [](last.kind = "needsCompaction" /\ ~last.ok =>
             scheduler.ticks[1] =
                 IF last.idx < Len(last.names)
                 THEN [active |-> TRUE, names |-> last.names, idx |-> last.idx + 1,
                       pc |-> "stat"]
                 ELSE NoTick)
    /\ [][(procs[1].kind = "compact" /\ procs'[1].kind = "idle") =>
             /\ scheduler.ticks[1].active /\ scheduler.ticks[1].pc = "compacting"
             /\ scheduler'.ticks[1] = scheduler.ticks[1]]_vars
    /\ [][/\ scheduler.isRunning => scheduler'.isRunning
          /\ scheduler.intervalId # 0 => scheduler'.intervalId = scheduler.intervalId
          /\ \A id \in DOMAIN scheduler.timers :
                /\ id \in DOMAIN scheduler'.timers
                /\ scheduler'.timers[id] = scheduler.timers[id]]_vars
    /\ \A names \in NameLists :
          \A i \in DOMAIN names :
              (TickAt(1, names, i) /\ i < Len(names)) ~> Examined(names, i + 1)
    /\ TickFailure ~> (last.kind = "tick")

\* The compaction of players has failed on a log that does not parse, and
\* the same tick has then found game_state above the threshold.
ErrorIsolationWitness ==
    /\ last.kind = "needsCompaction" /\ last.ok /\ last.needs
    /\ last.log = "game_state" /\ last.idx = 2
    /\ files["players"] = CorruptLog
    /\ backups["players"] = EmptyMap
    /\ scheduler.isRunning /\ scheduler.intervalId \in DOMAIN scheduler.timers

\* compactLog of p has made its backup copy and has not returned
PastBackup(p) ==
    /\ procs[p].kind = "compact"
    /\ procs[p].pc \in {"truncate", "write", "readdir", "unlink"}

\* the log file f holds the entries es as they were, or the one checkpoint
\* line made of them, and is rebuilt to the state es are rebuilt to
WholeLog(f, es) ==
    /\ \/ ReadLogEntries(f) = [ok |-> TRUE, entries |-> es]
       \/ f = FileOf(<<Stringify(CheckpointOf(Replay(EmptyMap, es)))>>)
    /\ RebuildStateFromLog(f) = Replay(EmptyMap, es)

\* C22 - Compaction crash safety: when a compactLog call that has made its
\* backup copy ends, by returning, by an exception or by the death of the
\* process, the log holds its complete content of before the call or the
\* complete single checkpoint line, and it is rebuilt to the state of
\* before the call.
CompactionCrashSafety ==
    [][(PastBackup(1) /\ procs'[1].kind = "idle") =>
          WholeLog(files'[procs[1].log], procs[1].before)]_vars

\* C23 - Facade delete: when clearGameState(c) has returned for a channel
\* whose game state had been saved, loadGameState(c) returns null, the
\* state rebuilt from the game_state log does not hold c, and the last
\* entry of that log about c is a Delete.
FacadeDelete ==
    (last.kind = "clearGameState" /\ last.ok /\ last.key \in DOMAIN last.prev) =>
        LET r == ReadJSON(snaps[Datasets.game_state], EmptyMap)
        IN  /\ r.ok /\ last.key \notin DOMAIN r.value
            /\ last.key \notin DOMAIN RebuildStateFromLog(files[Datasets.game_state])
            /\ DeletedLast(EntriesOf(Datasets.game_state), last.key)

RECURSIVE SumOfScores(_)
SumOfScores(cs) == IF cs = <<>> THEN 0 ELSE Head(cs).score + SumOfScores(Tail(cs))

RECURSIVE WinsOf(_)
WinsOf(cs) ==
    IF cs = <<>> THEN 0
    ELSE (IF Head(cs).isWinner THEN 1 ELSE 0) + WinsOf(Tail(cs))

\* the greatest score of the calls cs, of which there is one at least
BestOf(cs) == CHOOSE m \in {cs[i].score : i \in DOMAIN cs} : \A i \in DOMAIN cs : cs[i].score <= m

\* C24 - Stats accumulation: after updatePlayerStats calls issued one after
\* another, each awaited, loadPlayers returns one entry for every user id
\* of a call and no other, whose totalGames is the number of that user's
\* calls, totalScore the sum of their scores, totalWins the number of them
\* with isWinner, and bestScore the greatest of their scores.
StatsAccumulation ==
    (last.kind = "loadPlayers") =>
        /\ last.ok
        /\ DOMAIN last.result = DOMAIN calls.by
        /\ Cardinality(DOMAIN last.result) = Cardinality(DOMAIN calls.by)
        /\ \A u \in DOMAIN calls.by :
              LET stats == last.result[u]
                  cs == calls.by[u]
              IN  /\ stats.totalGames = Len(cs)
                  /\ stats.totalScore = SumOfScores(cs)
                  /\ stats.totalWins = WinsOf(cs)
                  /\ stats.bestScore = BestOf(cs)

\* Both users have played twice, with different scores, one of them winning
\* once.
StatsAccumulationWitness ==
    /\ last.kind = "loadPlayers"
    /\ DOMAIN calls.by = StatUsers
    /\ \A u \in StatUsers :
          /\ Len(calls.by[u]) = MaxGames
          /\ calls.by[u][1].score # calls.by[u][MaxGames].score
    /\ WinsOf(calls.by["u1"]) = 1
    /\ last.result["u2"].bestScore = 150 /\ last.result["u2"].totalScore = 150

\* C25 - Snapshot/log agreement: whenever no call is in progress, every
\* snapshot that exists parses and holds the mapping the log of its dataset
\* is rebuilt to, after any facade writes and compactions, none of which
\* failed.
SnapshotLogAgreement ==
    Quiet =>
        \A d \in LogNames :
            snaps[d].exists =>
                /\ snaps[d].parses
                /\ snaps[d].data = RebuildStateFromLog(files[d])

\* the log named n comes into existence in this step
Created(n) == ~files[n].exists /\ files'[n].exists

\* the step is the appendFile of an appendLogEntry(n, ...) call
AppendStep(n) == \E p \in ProcIds : procs[p].pc = "append" /\ procs[p].log = n

\* the step is the opening of the log by the writeFile of compactLog(n)
OverwriteStep(n) ==
    \E p \in ProcIds :
        procs[p].kind = "compact" /\ procs[p].pc = "truncate" /\ procs[p].log = n

\* C26 - Lazy creation as stated: a log comes into existence only in the
\* appendFile step of an append to its name.
LazyCreation ==
    [][\A n \in LogNames : Created(n) => AppendStep(n)]_vars

\* C26 as amended: a log comes into existence only by an append to its name
\* or by a compaction of it, which gives a log never appended to the one
\* checkpoint of the empty state and no backup; an append that has returned
\* leaves a log of a size above 0, where the size of a missing log is 0;
\* readLogEntries, rebuildStateFromLog, getLogSize and needsCompaction
\* leave a missing log missing.
LazyCreationByAppendOrCompact ==
    /\ [][\A n \in LogNames : Created(n) => (AppendStep(n) \/ OverwriteStep(n))]_vars
    /\ [](last.kind = "append" =>
             files[last.log].exists /\ LogSize(files[last.log]) > 0)
    /\ [](last.kind \in {"getLogSize", "needsCompaction"} =>
             /\ files[last.log] = last.seen
             /\ ~last.seen.exists => last.size = 0)
    /\ [](last.kind \in {"read", "rebuild"} => files[last.log] = last.seen)
    /\ []((last.kind = "compact" /\ last.ok /\ acked[last.log] = {}) =>
             /\ files[last.log] = FileOf(<<Stringify(CheckpointEntry(EmptyMap))>>)
             /\ \A ts \in DOMAIN backups[last.log] :
                   backups[last.log][ts] = <<Stringify(CheckpointEntry(EmptyMap))>>)

\* compactLog has returned for a name nothing was ever appended to, and the
\* log exists now, with no backup; the other log was made by an append.
LazyCreationWitness ==
    /\ last.kind = "compact" /\ last.ok /\ last.log = "game_state"
    /\ acked["game_state"] = {} /\ files["game_state"].exists
    /\ backups["game_state"] = EmptyMap
    /\ acked["players"] # {} /\ files["players"].exists

\* the player record of u in session s, a player yet unknown having none
PlayerOf(s, u) == IF u \in DOMAIN s.players THEN s.players[u] ELSE NewPlayer

\* the rounds of s that have begun
RoundsStarted(s) ==
    IF s.currentRound + 1 <= s.totalRounds THEN s.currentRound + 1 ELSE s.totalRounds

\* C27 - Only one answer per round: a player's score, correctAnswers or
\* incorrectAnswers change only by that player's first answer with a valid
\* choice in the current round, which counts as one answer; an answer of a
\* player who has answered in the current round is rejected with
\* alreadyAnswered and changes nothing; and for every player correctAnswers
\* + incorrectAnswers is the number of rounds the player has answered in,
\* which never exceeds the number of rounds started.
OneAnswerPerRound ==
    /\ [][(session.exists /\ session'.exists) =>
             \A u \in GameUsers :
                 PlayerOf(session', u) # PlayerOf(session, u) =>
                     /\ InRound(session)
                     /\ session'.currentRound = session.currentRound
                     /\ u \notin session.answered[session.currentRound + 1]
                     /\ u \in session'.answered[session.currentRound + 1]
                     /\ last'.kind = "processAnswer" /\ last'.key = u
                     /\ last'.outcome \in {"correct", "wrong"}
                     /\ PlayerOf(session', u).correctAnswers
                            + PlayerOf(session', u).incorrectAnswers
                          = PlayerOf(session, u).correctAnswers
                              + PlayerOf(session, u).incorrectAnswers + 1]_vars
    /\ [][\A u \in GameUsers, l \in Labels :
             (/\ ProcessAnswer(u, l)
              /\ InRound(session)
              /\ u \in session.answered[session.currentRound + 1]) =>
                 /\ session' = session
                 /\ last'.outcome = "alreadyAnswered"]_vars
    /\ [](session.exists =>
             \A u \in GameUsers :
                 LET p == PlayerOf(session, u)
                     rs == {r \in DOMAIN session.answered : u \in session.answered[r]}
                 IN  /\ p.correctAnswers + p.incorrectAnswers = Cardinality(rs)
                     /\ \A r \in rs : r <= RoundsStarted(session)
                     /\ p.correctAnswers + p.incorrectAnswers <= RoundsStarted(session))

\* In the second round of a game a player who has answered both rounds,
\* once right and once wrong, answers again and is turned away.
OneAnswerPerRoundWitness ==
    /\ last.kind = "processAnswer" /\ last.outcome = "alreadyAnswered"
    /\ last.key = "u1"
    /\ session.currentRound = 1 /\ session.totalRounds = 2
    /\ "u1" \in DOMAIN session.players
    /\ session.players["u1"].correctAnswers = 1
    /\ session.players["u1"].incorrectAnswers = 1
    /\ "u2" \in session.answered[1] /\ "u2" \notin session.answered[2]

\* a is the beginning of b
IsPrefix(a, b) == Len(a) <= Len(b) /\ SubSeq(b, 1, Len(a)) = a

\* two readLogEntries calls on one log have returned, the second just now
TwoReads == last.kind = "read" /\ last.ok /\ last.earlier.read

\* the step is a step of the writeFile of compactLog(n)
WriteFileStep(n) ==
    \E p \in ProcIds :
        /\ procs[p].kind = "compact" /\ procs[p].log = n
        /\ procs[p].pc \in {"truncate", "write"}

\* C28 - Append-only log as stated: of two readLogEntries calls on a log
\* with no compaction of it having completed between them, the first has
\* returned a prefix of what the second returned.
AppendOnlyBetweenCompactions ==
    (TwoReads /\ ~last.earlier.completed) =>
        IsPrefix(last.earlier.entries, last.before)

\* C28 as amended: of two readLogEntries calls on a log with no step of a
\* compaction's overwrite between them, the first has returned a prefix of
\* what the second returned; and a step changes a log file only by adding
\* one line at its end, in an append, or in the writeFile of compactLog.
AppendOnlyUnlessOverwritten ==
    /\ []((TwoReads /\ ~last.earlier.replaced) =>
             IsPrefix(last.earlier.entries, last.before))
    /\ [][\A n \in LogNames :
             files'[n] # files[n] =>
                 \/ /\ AppendStep(n)
                    /\ Len(files'[n].lines) = Len(files[n].lines) + 1
                    /\ SubSeq(files'[n].lines, 1, Len(files[n].lines)) = files[n].lines
                 \/ WriteFileStep(n)]_vars

\* A read after a compaction, an append, and a read again: the checkpoint
\* and the new entry behind it.
AppendOnlyWitness ==
    /\ TwoReads /\ ~last.earlier.replaced
    /\ Len(last.earlier.entries) = 1
    /\ last.earlier.entries[1].op = OpType.CHECKPOINT
    /\ Len(last.before) = 2
    /\ last.before[2].op = OpType.DELETE

\* the step is the fs.copyFile of compactLog, called by p
CopyStep(p) == procs[p].pc = "copy" /\ procs'[p].pc = "truncate"

\* the step is the one in which the fs.writeFile of compactLog, called by p,
\* empties the log
EmptyingStep(p) == procs[p].pc = "truncate" /\ procs'[p].pc = "write"

\* C29 - Backup before overwrite: when compactLog overwrites a log that
\* exists, the backup it names exists and holds the lines the log holds at
\* that moment; and a compactLog that finds no log to copy makes no backup.
BackupBeforeOverwrite ==
    /\ [][\A p \in ProcIds :
             (EmptyingStep(p) /\ files[procs[p].log].exists) =>
                 /\ procs[p].ts \in DOMAIN backups[procs[p].log]
                 /\ backups[procs[p].log][procs[p].ts] = files[procs[p].log].lines]_vars
    /\ [][\A p \in ProcIds :
             (CopyStep(p) /\ ~files[procs[p].log].exists) => backups' = backups]_vars

\* a compactLog(n) call is in progress
Compacting(n) ==
    \E p \in ProcIds : procs[p].kind = "compact" /\ procs[p].log = n

\* C30 - Backup upper bound: whenever no compactLog call of a log is in
\* progress, each having returned or thrown, at most three backups of that
\* log exist; and a compactLog call removes no backup of another log.
BackupUpperBound ==
    /\ [](\A n \in LogNames :
             ~Compacting(n) => Cardinality(DOMAIN backups[n]) <= KeepBackups)
    /\ [][\A n \in LogNames :
             Compacting(n) =>
                 \A m \in LogNames \ {n} : DOMAIN backups[m] \subseteq DOMAIN backups'[m]]_vars

\* C31 - Compaction never grows the log, as stated: the size of the log
\* after a compactLog call that returned is at most its size before the
\* call, whatever the log held.
CompactionNeverGrows ==
    Compacted => LogSize(files[last.log]) <= last.sizeBefore

\* C31 as amended: for a log that held at least two entries, the size after
\* a compactLog call that returned is at most the size before the call.
CompactionNeverGrowsLongLog ==
    (Compacted /\ Len(last.before) >= 2) =>
        LogSize(files[last.log]) <= last.sizeBefore

\* Two Set entries of one key compacted: the log is smaller than before.
CompactionNeverGrowsWitness ==
    /\ Compacted /\ Len(last.before) = 2
    /\ last.before[1].op = OpType.SET /\ last.before[2].op = OpType.SET
    /\ last.before[1].key = "u1" /\ last.before[2].key = "u1"
    /\ LogSize(files[last.log]) < last.sizeBefore

\* C32 - No append is lost to a concurrent compaction: when a compactLog
\* call returns and an append returned between its read of the log and the
\* end of its overwrite, the log reads and its replay is the replay of the
\* appends that returned since that read, in their order, on top of the state
\* the call read.
NoAppendLost ==
    (Compacted /\ last.window >= 1) =>
        /\ ReadLogEntries(files[last.log]).ok
        /\ RebuildStateFromLog(files[last.log]) =
               Replay(last.checkpointed, last.during)

\* C33 - No lost updates: once the updatePlayerStats calls issued have all
\* returned, none having thrown, in whatever way their steps interleaved,
\* the stored stats of every user of a call have totalGames the number of
\* that user's calls and totalScore the sum of their scores.
NoLostUpdates ==
    (Quiet /\ ~calls.failed /\ DOMAIN calls.by # {}) =>
        LET r == ReadJSON(snaps[Datasets.players], EmptyMap)
        IN  /\ r.ok
            /\ \A u \in DOMAIN calls.by :
                  /\ u \in DOMAIN r.value
                  /\ r.value[u].totalGames = Len(calls.by[u])
                  /\ r.value[u].totalScore = SumOfScores(calls.by[u])

\* compactLog of p has not got past its read of the log
BeforeCopy(p) == procs[p].kind = "compact" /\ procs[p].pc \in {"ensure", "read"}

\* C34 - Failed compaction of an unreadable log changes nothing: up to and
\* including its read of the log a compactLog call changes no log file and
\* no backup, and when the log does not read the call ends there, throwing.
UnreadableLogUntouched ==
    [][\A p \in ProcIds :
          BeforeCopy(p) =>
              /\ files' = files
              /\ backups' = backups
              /\ (/\ procs[p].pc = "read"
                  /\ procs'[p] # procs[p]
                  /\ ~ReadLogEntries(files[procs[p].log]).ok) =>
                     /\ procs'[p].kind = "idle"
                     /\ last'.kind = "compact" /\ ~last'.ok]_vars

\* A compaction of a log holding a line cut short, of which a backup
\* exists, has thrown at its read.
UnreadableLogWitness ==
    /\ last.kind = "compact" /\ ~last.ok /\ last.outcome = "unreadable"
    /\ Quiet
    /\ \E i \in DOMAIN files[last.log].lines : files[last.log].lines[i] = Fragment
    /\ DOMAIN backups[last.log] # {}

\* C35 - Scheduler lifecycle: isRunning holds exactly when a timer is armed,
\* which then is the one intervalId names; no more than one timer is armed;
\* stop() on a stopped scheduler changes nothing; and start() on a stopped
\* scheduler arms one timer, whose callback holds the log names given.
SchedulerLifecycle ==
    /\ scheduler.isRunning <=> DOMAIN scheduler.timers # {}
    /\ scheduler.isRunning => scheduler.intervalId \in DOMAIN scheduler.timers
    /\ Cardinality(DOMAIN scheduler.timers) <= 1
    /\ (last.kind = "stop" /\ ~last.was.isRunning) =>
           Lifecycle(scheduler) = last.was
    /\ (last.kind = "start" /\ ~last.was.isRunning) =>
           /\ scheduler.isRunning
           /\ DOMAIN scheduler.timers = {scheduler.intervalId}
           /\ scheduler.timers[scheduler.intervalId] = last.names

\* start() after stop(), with another list of names, while a tick of the
\* timer armed first is still in progress.
SchedulerLifecycleWitness ==
    /\ last.kind = "start" /\ ~last.was.isRunning
    /\ scheduler.ticks[1].active
    /\ scheduler.ticks[1].names = <<"players", "game_state">>
    /\ scheduler.timers[scheduler.intervalId] = <<"game_state">>

\* C36 - Bounded game history: loadPlayers, after updatePlayerStats calls
\* each awaited, returns for every user a gamesHistory of at most 50 games,
\* which are the last min(number of calls, 50) of that user's calls in call
\* order, while totalGames, totalScore and totalWins count every call.
BoundedHistory ==
    (last.kind = "loadPlayers" /\ last.ok) =>
        \A u \in DOMAIN calls.by :
            LET cs == calls.by[u]
                stats == last.result[u]
            IN  /\ Len(stats.gamesHistory) <= HistoryCap
                /\ stats.gamesHistory = LastOf(cs, HistoryCap)
                /\ stats.totalGames = Len(cs)
                /\ stats.totalScore = SumOfScores(cs)
                /\ stats.totalWins = WinsOf(cs)

\* A player of more games than the history keeps, the last two of them with
\* different scores.
BoundedHistoryWitness ==
    /\ last.kind = "loadPlayers" /\ last.ok
    /\ "u1" \in DOMAIN last.result
    /\ last.result["u1"].totalGames > HistoryCap
    /\ Len(last.result["u1"].gamesHistory) = HistoryCap
    /\ last.result["u1"].gamesHistory[HistoryCap].score = 150
    /\ last.result["u1"].gamesHistory[HistoryCap - 1].score = 100
    /\ last.result["u1"].gamesHistory[1] # PriorCalls(1)[1]

\* C37 - One session per channel: startGame on a channel that has a
\* session, one that is saving its stats included, is refused and leaves the
\* session as it is; startGame for more rounds than there are tokens is
\* refused and makes no session; and a session is made or replaced by no
\* other startGame than one that succeeds on a channel without session.
OneSessionPerChannel ==
    /\ [][\A rounds \in StartRounds :
             (StartGame(rounds) /\ session.exists) =>
                 /\ session' = session
                 /\ ~last'.ok /\ last'.outcome = "inProgress"]_vars
    /\ [][\A rounds \in StartRounds :
             (StartGame(rounds) /\ ~session.exists /\ TokenCount < rounds) =>
                 /\ ~session'.exists
                 /\ ~last'.ok /\ last'.outcome = "notEnoughTokens"]_vars
    /\ [][(session'.exists /\ session'.started # session.started) =>
             /\ ~session.exists
             /\ last'.kind = "startGame" /\ last'.ok
             /\ session'.totalRounds <= TokenCount]_vars

\* startGame has been refused on a channel whose game has ended and is
\* saving the stats of its second player.
OneSessionPerChannelWitness ==
    /\ last.kind = "startGame" /\ ~last.ok /\ last.outcome = "inProgress"
    /\ session.exists /\ session.pc = "saving" /\ ~session.isActive
    /\ Len(session.todo) = 1
    /\ Cardinality(DOMAIN session.players) = 2

\* totalGames of user u in players.json, 0 for a user it does not hold.
TotalGamesOf(u) ==
    LET r == ReadJSON(snaps[Datasets.players], EmptyMap)
    IN  IF r.ok /\ u \in DOMAIN r.value THEN r.value[u].totalGames ELSE 0

\* C39 - A game is recorded once: no participant has more updatePlayerStats
\* calls, or more totalGames in players.json, than the channel has had
\* sessions, whichever way the endGame of the last round and the one of
\* /stopgame interleave; and when a session is deleted, every participant of
\* it has one call for each session.
RecordedOnce ==
    /\ [](\A u \in GameUsers :
             /\ Len(CallsOf(u)) <= session.started
             /\ TotalGamesOf(u) <= session.started)
    /\ [][(session.exists /\ ~session'.exists) =>
             \A u \in DOMAIN session.players :
                 Len(CallsOf(u))' = session.started]_vars

\* The stats of one player of one game have been written twice: totalGames
\* is 2 after one session.
RecordedTwice ==
    \E u \in GameUsers : session.started = 1 /\ TotalGamesOf(u) = 2

\* C38 - Round timers are bound to their own session: a round timer or a
\* post-round delay that ends a round, advances currentRound or ends the
\* game does so to the session it was set for, never to a later session of
\* the channel.
TimersBoundToSession ==
    (last.kind \in {"endRound", "nextRound"} /\ last.ok) => last.of = session.started

\* The round timer of a session that was stopped has ended the game of the
\* session started after it.
LaterGameEndedByTimer ==
    /\ last.kind = "nextRound" /\ last.outcome = "gameOver"
    /\ last.of = 1 /\ session.started = 2
    /\ session.exists /\ session.pc = "saving"

=============================================================================
